---- MODULE Spec2Model ----
(***************************************************************************)
(* Envelope encryption core of the secure password manager                 *)
(* (src/crypto_utils.py): PBKDF2 key derivation, AES-256-GCM sealing, the  *)
(* base64 envelope codec, key rotation and the integrity check.            *)
(*                                                                         *)
(* Python str values are sequences of code points, bytes values are        *)
(* sequences of 0..255.  The library primitives the module calls           *)
(* (PBKDF2HMAC, AES-GCM, secrets.token_bytes) are not part of the          *)
(* repository; they are modelled by small arithmetic stand-ins that keep   *)
(* the properties the primitives are used for: the KDF is deterministic    *)
(* and collision free on the modelled inputs, the cipher is a keystream    *)
(* cipher whose tag depends on key, nonce and every ciphertext byte, and   *)
(* the secure random source never returns the same value twice.            *)
(***************************************************************************)
EXTENDS Integers, Sequences, FiniteSets, TLC

VARIABLES rngOut, vault, last, faulty,
          frames,
          users, passwords, current_user, response, applog

crypto == <<rngOut, vault, last, faulty>>
web == <<users, passwords, current_user, response, applog>>
vars == <<rngOut, vault, last, faulty, frames, users, passwords, current_user, response, applog>>

(***************************************************************************)
(* Program constants (crypto_utils.py:19-23)                               *)
(***************************************************************************)
AES_KEY_SIZE == 32
IV_SIZE == 16
TAG_SIZE == 16
SALT_SIZE == 32

(***************************************************************************)
(* Bounds of the model                                                     *)
(***************************************************************************)
\* number of envelopes one run may hold (successful encrypt/rotate calls)
MaxEnvelopes == 2

(***************************************************************************)
(* Byte strings and text                                                   *)
(*                                                                         *)
(* Intermediate values are bound with The({body : x \in {value}}), which   *)
(* reads "LET x == value IN body" and evaluates value once.                *)
(***************************************************************************)
The(S) == CHOOSE r \in S : TRUE

\* the sequence with the elements of f, evaluated once
AsSeq(f) == f \o <<>>

\* s[from+1 .. to] as Python's s[from:to] (0-based, end exclusive, clamped)
Slice(s, from, to) ==
  The({IF from >= hi THEN <<>> ELSE SubSeq(s, from + 1, hi) :
       hi \in {IF to > Len(s) THEN Len(s) ELSE to}})

\* the concatenation of a sequence of sequences (halving keeps the recursion shallow)
RECURSIVE Flatten(_)
Flatten(ss) ==
  IF ss = <<>> THEN <<>>
  ELSE IF Len(ss) = 1 THEN ss[1]
  ELSE The({Flatten(l) \o Flatten(r) :
            l \in {SubSeq(ss, 1, Len(ss) \div 2)},
            r \in {SubSeq(ss, (Len(ss) \div 2) + 1, Len(ss))}})

\* str.encode('utf-8') of one code point (scalar values below 0x10000)
UTF8Char(cp) ==
  IF cp < 128 THEN <<cp>>
  ELSE IF cp < 2048 THEN <<192 + (cp \div 64), 128 + (cp % 64)>>
  ELSE <<224 + (cp \div 4096), 128 + ((cp \div 64) % 64), 128 + (cp % 64)>>

\* str.encode('utf-8')
UTF8Encode(str) ==
  The({Flatten(chars) : chars \in {AsSeq([i \in 1..Len(str) |-> UTF8Char(str[i])])}})

IsCont(b) == b >= 128 /\ b <= 191

\* The character that starts at b[i]: <<width, code point>>, width 0 when the bytes
\* there are not valid UTF-8 (overlong forms and surrogates are rejected, as by
\* CPython's decoder).
UTF8At(b, i) ==
  LET has(k) == i + k <= Len(b) /\ IsCont(b[i + k])
  IN  IF b[i] < 128 THEN <<1, b[i]>>
      ELSE IF b[i] >= 194 /\ b[i] <= 223 /\ has(1)
        THEN <<2, (b[i] - 192) * 64 + (b[i + 1] - 128)>>
      ELSE IF b[i] >= 224 /\ b[i] <= 239 /\ has(1) /\ has(2)
              /\ (b[i] = 224 => b[i + 1] >= 160)
              /\ (b[i] = 237 => b[i + 1] <= 159)
        THEN <<3, (b[i] - 224) * 4096 + (b[i + 1] - 128) * 64 + (b[i + 2] - 128)>>
      ELSE IF b[i] >= 240 /\ b[i] <= 244 /\ has(1) /\ has(2) /\ has(3)
              /\ (b[i] = 240 => b[i + 1] >= 144)
              /\ (b[i] = 244 => b[i + 1] <= 143)
        THEN <<4, (b[i] - 240) * 262144 + (b[i + 1] - 128) * 4096
                  + (b[i + 2] - 128) * 64 + (b[i + 3] - 128)>>
      ELSE <<0, 0>>

\* bytes.decode('utf-8'): <<TRUE, str>> or <<FALSE, <<offending byte, position>>>>
\* (UnicodeDecodeError)
RECURSIVE UTF8Scan(_, _, _)
UTF8Scan(b, i, acc) ==
  IF i > Len(b) THEN <<TRUE, acc>>
  ELSE The({IF ch[1] = 0 THEN <<FALSE, <<b[i], i - 1>>>>
            ELSE The({UTF8Scan(b, j, acc2) : j \in {i + ch[1]}, acc2 \in {Append(acc, ch[2])}}) :
            ch \in {UTF8At(b, i)}})

\* (a long input is cut at the character boundary nearest to its middle and the two
\* parts are decoded in turn, which keeps the recursion shallow)
RECURSIVE UTF8Decode(_)
UTF8Decode(b) ==
  IF Len(b) <= 16 THEN UTF8Scan(b, 1, <<>>)
  ELSE The({IF starts = {} THEN UTF8Scan(b, 1, <<>>)
            ELSE The({The({IF ~l[1] THEN l
                           ELSE The({IF r[1] THEN <<TRUE, l[2] \o r[2]>>
                                     ELSE <<FALSE, <<r[2][1], r[2][2] + k - 1>>>> :
                                     r \in {UTF8Decode(SubSeq(b, k, Len(b)))}}) :
                           l \in {UTF8Decode(SubSeq(b, 1, k - 1))}}) :
                      k \in {CHOOSE i \in starts :
                               \A j \in starts :
                                 (IF 2 * i >= Len(b) THEN 2 * i - Len(b) ELSE Len(b) - 2 * i)
                                   <= (IF 2 * j >= Len(b) THEN 2 * j - Len(b)
                                       ELSE Len(b) - 2 * j)}}) :
            starts \in {{i \in 2..Len(b) : ~IsCont(b[i])}}})

(***************************************************************************)
(* base64 (the standard alphabet, '=' padding)                             *)
(***************************************************************************)
PadChar == 61

\* the character of a 6-bit value: A-Z a-z 0-9 + /
B64Char(v) ==
  IF v < 26 THEN 65 + v
  ELSE IF v < 52 THEN 97 + (v - 26)
  ELSE IF v < 62 THEN 48 + (v - 52)
  ELSE IF v = 62 THEN 43 ELSE 47

\* the 6-bit value of a character, 64 for a character outside the alphabet
B64Val(c) ==
  IF c >= 65 /\ c <= 90 THEN c - 65
  ELSE IF c >= 97 /\ c <= 122 THEN c - 97 + 26
  ELSE IF c >= 48 /\ c <= 57 THEN c - 48 + 52
  ELSE IF c = 43 THEN 62
  ELSE IF c = 47 THEN 63
  ELSE 64

\* the k-th character of the encoding of data
B64EncodedChar(data, k) ==
  LET n == Len(data)
      at(j) == IF j <= n THEN data[j] ELSE 0
      q == (k - 1) \div 4
      r == (k - 1) % 4
  IN  IF r = 0 THEN B64Char(at(3 * q + 1) \div 4)
      ELSE IF r = 1 THEN B64Char((at(3 * q + 1) % 4) * 16 + (at(3 * q + 2) \div 16))
      ELSE IF r = 2 THEN
        IF 3 * q + 2 > n THEN PadChar
        ELSE B64Char((at(3 * q + 2) % 16) * 4 + (at(3 * q + 3) \div 64))
      ELSE
        IF 3 * q + 3 > n THEN PadChar ELSE B64Char(at(3 * q + 3) % 64)

\* base64.b64encode(data).decode('utf-8'): every 3 bytes become 4 characters, the
\* last group is padded with '='
B64Encode(data) ==
  AsSeq([k \in 1..(4 * ((Len(data) + 2) \div 3)) |-> B64EncodedChar(data, k)])

IsB64Data(c) == B64Val(c) < 64
IsB64DataOrPad(c) == c = PadChar \/ B64Val(c) < 64

\* Where the decoder stops reading t (the input without the characters it skips):
\* at the pad character that completes a group of 2 or 3 data characters, or past
\* the end.
B64Stop(t) ==
  LET quadAt(i) == Len(SelectSeq(SubSeq(t, 1, i - 1), IsB64Data)) % 4
      padsAt(i) == IF i > 1 /\ t[i - 1] = PadChar THEN 1 ELSE 0
      ends(i) == /\ t[i] = PadChar
                 /\ quadAt(i) >= 2
                 /\ quadAt(i) + padsAt(i) + 1 >= 4
  IN  The({IF stops = {} THEN Len(t) + 1 ELSE CHOOSE i \in stops : \A j \in stops : i <= j :
           stops \in {{i \in 1..Len(t) : ends(i)}}})

\* the k-th byte of the 6-bit values v
B64DecodedByte(v, k) ==
  LET g == 4 * ((k - 1) \div 3)
      r == (k - 1) % 3
  IN  IF r = 0 THEN v[g + 1] * 4 + (v[g + 2] \div 16)
      ELSE IF r = 1 THEN (v[g + 2] % 16) * 16 + (v[g + 3] \div 4)
      ELSE (v[g + 3] % 4) * 64 + v[g + 4]

\* the bytes of the data characters `data`; stopped = a pad sequence ended the input
B64Bytes(data, stopped) ==
  IF ~stopped /\ Len(data) % 4 # 0 THEN <<FALSE, <<>>>>
  ELSE The({<<TRUE, AsSeq([k \in 1..n |-> B64DecodedByte(v, k)])>> :
            v \in {AsSeq([k \in 1..Len(data) |-> B64Val(data[k])])},
            n \in {3 * (Len(data) \div 4)
                   + (IF Len(data) % 4 = 0 THEN 0 ELSE (Len(data) % 4) - 1)}})

\* base64.b64decode(bytes) with validate=False (binascii.a2b_base64, non-strict):
\* characters outside the alphabet are skipped; a pad sequence that completes a
\* group of 2 or 3 data characters ends the input (what follows is ignored), other
\* pad characters are skipped; a group left dangling at the end of the input is
\* binascii.Error (a ValueError).  <<TRUE, bytes>> or <<FALSE, <<>>>>
B64Decode(s) ==
  The({The({The({B64Bytes(data, stop <= Len(t)) :
                 data \in {SelectSeq(SubSeq(t, 1, stop - 1), IsB64Data)}}) :
            stop \in {B64Stop(t)}}) :
       t \in {SelectSeq(s, IsB64DataOrPad)}})

(***************************************************************************)
(* Outcomes of a call.  kind is "ok" or the Python exception type raised;   *)
(* msg and data are the exception's message and the data formatted into    *)
(* it; causes is the __cause__ chain (outermost first); value is the        *)
(* returned value; steps lists the primitives the call ran, in order;      *)
(* locals keeps the segments the call packed or sliced; logs are the        *)
(* logger records written.                                                  *)
(***************************************************************************)
NoLocals == [salt |-> <<>>, iv |-> <<>>, tag |-> <<>>, ciphertext |-> <<>>, key |-> <<>>]

Exc(kind, msg, data) == [kind |-> kind, msg |-> msg, data |-> data]

LogRec(level, text, e) == [level |-> level, text |-> text, err |-> e.msg, data |-> e.data]

Return(value, steps, locals, logs) ==
  [kind |-> "ok", msg |-> "", data |-> <<>>, causes |-> <<>>, value |-> value,
   steps |-> steps, locals |-> locals, logs |-> logs]

\* raise e, e.__cause__ chain = causes
Raise(e, causes, steps, locals, logs) ==
  [kind |-> e.kind, msg |-> e.msg, data |-> e.data, causes |-> causes, value |-> <<>>,
   steps |-> steps, locals |-> locals, logs |-> logs]

\* the exception object an outcome carries
ExcOf(out) == Exc(out.kind, out.msg, out.data)

\* Python's class hierarchy: what `except ValueError` and `except Exception` catch
IsValueError(kind) == kind \in {"ValueError", "binascii.Error", "UnicodeDecodeError"}
IsException(kind) ==
  kind \in {"ValueError", "binascii.Error", "UnicodeDecodeError", "RuntimeError",
            "InvalidTag", "LibraryError"}

(***************************************************************************)
(* Stand-ins for the library primitives                                    *)
(***************************************************************************)
\* a ^ b on bytes
Xor(a, b) ==
  LET bit(k) == (((a \div k) % 2) + ((b \div k) % 2)) % 2
  IN  bit(1) + 2 * bit(2) + 4 * bit(4) + 8 * bit(8) + 16 * bit(16) + 32 * bit(32)
      + 64 * bit(64) + 128 * bit(128)

\* secrets.token_bytes(n): the id-th value of the secure random source
TokenBytes(n, id) == AsSeq([i \in 1..n |-> (id * 41 + i * (2 * id + 1)) % 256])

\* a digest of the password bytes
Digest(bytes) ==
  LET RECURSIVE sum(_)
      sum(i) == IF i = 0 THEN 0 ELSE (bytes[i] * i + sum(i - 1)) % 256
  IN  sum(Len(bytes))

\* PBKDF2HMAC(SHA256, length, salt, iterations).derive(password): `length` bytes,
\* a function of (password, salt) alone that differs when either differs
PBKDF2(password, salt, length) ==
  The({AsSeq([i \in 1..length |->
                (salt[((i - 1) % Len(salt)) + 1] + h * (1 + ((2 * (i - 1)) \div length)) + 1)
                  % 256]) :
       h \in {Digest(password)}})

\* AES in counter mode: the keystream byte for position i
KeyStream(key, iv, i) ==
  (key[((i - 1) % Len(key)) + 1] + iv[((i - 1) % Len(iv)) + 1] + i) % 256

\* encryptor.update(data) / decryptor.update(data): XOR with the keystream
CTR(key, iv, data) == AsSeq([i \in 1..Len(data) |-> Xor(data[i], KeyStream(key, iv, i))])

\* the sum of the ciphertext bytes at positions j, j + TAG_SIZE, j + 2 TAG_SIZE, ...
LaneSum(ct, j) ==
  LET RECURSIVE sum(_)
      sum(i) == IF i > Len(ct) THEN 0 ELSE (ct[i] + sum(i + TAG_SIZE)) % 256
  IN  sum(j)

\* bug: an authenticator that leaves the nonce out of the tag
GMACWithoutNonce(key, iv, ct) ==
  AsSeq([j \in 1..TAG_SIZE |->
           (key[j] + 3 * key[j + TAG_SIZE] + LaneSum(ct, j) + Len(ct)) % 256])

\* the GCM tag over the ciphertext: TAG_SIZE bytes depending on every byte of the
\* key, the nonce and the ciphertext, and on the ciphertext's length
GMAC(key, iv, ct) ==
  AsSeq([j \in 1..TAG_SIZE |->
           (key[j] + 3 * key[j + TAG_SIZE] + iv[j] + LaneSum(ct, j) + Len(ct)) % 256])

(***************************************************************************)
(* crypto_utils.py                                                         *)
(***************************************************************************)
\* bug: the key is derived from the salt alone, the master key is never fed to the KDF
DeriveIgnoringMasterKey(master_key, salt, kdfOk) ==
  IF master_key = <<>> THEN
    <<FALSE, Exc("ValueError", "Master key cannot be empty", <<>>), <<>>, <<>>>>
  ELSE <<TRUE, PBKDF2(<<>>, salt, AES_KEY_SIZE)>>

\* derive_key_from_master(master_key, salt); kdfOk = FALSE is a failure of the
\* underlying primitive.  <<TRUE, key>> or <<FALSE, exception, causes, logs>>
derive_key_from_master(master_key, salt, kdfOk) ==
  IF master_key = <<>> THEN
    <<FALSE, Exc("ValueError", "Master key cannot be empty", <<>>), <<>>, <<>>>>
  ELSE IF ~kdfOk THEN
    LET e == Exc("LibraryError", "primitive failed", <<>>)
    IN  <<FALSE, Exc("RuntimeError", "Key derivation failed", <<>>), <<e>>,
          <<LogRec("error", "Key derivation failed: ", e)>>>>
  ELSE The({<<TRUE, PBKDF2(master_key_bytes, salt, AES_KEY_SIZE)>> :
            master_key_bytes \in {UTF8Encode(master_key)}})

\* the `except Exception` clause of encrypt_password (lines 120-122)
EncryptHandler(e, causes, steps, locals, logs) ==
  Raise(Exc("RuntimeError", "Password encryption failed", <<>>), <<e>> \o causes, steps,
        locals, logs \o <<LogRec("error", "Password encryption failed: ", e)>>)

\* bug: the tag is appended after the ciphertext
PackTagLast(salt, iv, tag, ciphertext) == salt \o iv \o ciphertext \o tag

\* line 115: encrypted_data = salt + iv + tag + ciphertext
Pack(salt, iv, tag, ciphertext) == salt \o iv \o tag \o ciphertext

\* bug: a block mode with padding, the ciphertext is filled up to whole 16-byte blocks
SealPadded(key, iv, password_bytes) ==
  The({<<ciphertext, GMAC(key, iv, ciphertext)>> :
       ciphertext \in {CTR(key, iv, password_bytes \o
                         AsSeq([i \in 1..(16 - (Len(password_bytes) % 16)) |->
                                  16 - (Len(password_bytes) % 16)]))}})

\* lines 100-112: the AES-GCM encryptor; <<ciphertext, tag>>
Seal(key, iv, password_bytes) ==
  The({<<ciphertext, GMAC(key, iv, ciphertext)>> :
       ciphertext \in {CTR(key, iv, password_bytes)}})

\* bug: the master key is not checked before the try block
EncryptGuardPlaintextOnly(plaintext_password, master_key) ==
  IF plaintext_password = <<>> THEN
    <<Exc("ValueError", "Password cannot be empty", <<>>)>>
  ELSE <<>>

\* lines 83-87: the argument checks made before the try block; <<>> when they pass
EncryptGuard(plaintext_password, master_key) ==
  IF plaintext_password = <<>> THEN
    <<Exc("ValueError", "Password cannot be empty", <<>>)>>
  ELSE IF master_key = <<>> THEN
    <<Exc("ValueError", "Master key cannot be empty", <<>>)>>
  ELSE <<>>

\* lines 97-118, once the key is derived
EncryptWithKey(plaintext_password, salt, iv, key) ==
  The({The({The({Return(B64Encode(encrypted_data),
                        <<"token_bytes", "token_bytes", "derive", "cipher", "b64encode">>,
                        [salt |-> salt, iv |-> iv, tag |-> sealed[2],
                         ciphertext |-> sealed[1], key |-> key],
                        <<>>) :
                 encrypted_data \in {Pack(salt, iv, sealed[2], sealed[1])}}) :
            sealed \in {Seal(key, iv, password_bytes)}}) :
       password_bytes \in {UTF8Encode(plaintext_password)}})

\* lines 89-122: the try block; salt and iv are what the two secrets.token_bytes
\* calls return
EncryptBody(plaintext_password, master_key, salt, iv, kdfOk) ==
  The({IF ~d[1] THEN
         EncryptHandler(d[2], d[3], <<"token_bytes", "token_bytes", "derive">>,
                        [NoLocals EXCEPT !.salt = salt, !.iv = iv], d[4])
       ELSE EncryptWithKey(plaintext_password, salt, iv, d[2]) :
       d \in {derive_key_from_master(master_key, salt, kdfOk)}})

\* bug: salt and IV are module-level values instead of being drawn in every call
EncryptWithStaticSaltAndIv(plaintext_password, master_key, salt, iv, kdfOk) ==
  The({IF guard # <<>> THEN Raise(guard[1], <<>>, <<>>, NoLocals, <<>>)
       ELSE EncryptBody(plaintext_password, master_key, TokenBytes(SALT_SIZE, 0),
                        TokenBytes(IV_SIZE, 0), kdfOk) :
       guard \in {EncryptGuard(plaintext_password, master_key)}})

\* encrypt_password(plaintext_password, master_key)
encrypt_password(plaintext_password, master_key, salt, iv, kdfOk) ==
  The({IF guard # <<>> THEN Raise(guard[1], <<>>, <<>>, NoLocals, <<>>)
       ELSE EncryptBody(plaintext_password, master_key, salt, iv, kdfOk) :
       guard \in {EncryptGuard(plaintext_password, master_key)}})

\* bug: the `except ValueError` clause is missing, every failure takes the last clause
DecryptHandlerCatchAll(e, causes, steps, locals, logs) ==
  Raise(Exc("RuntimeError", "Password decryption failed", <<>>), <<e>> \o causes, steps,
        locals, logs \o <<LogRec("error", "Password decryption failed: ", e)>>)

\* the two except clauses of decrypt_password (lines 178-183)
DecryptHandler(e, causes, steps, locals, logs) ==
  IF IsValueError(e.kind) THEN
    Raise(Exc("ValueError", "Invalid encrypted password data", <<>>), <<e>> \o causes, steps,
          locals,
          logs \o <<LogRec("warning", "Password decryption failed - invalid data: ", e)>>)
  ELSE
    Raise(Exc("RuntimeError", "Password decryption failed", <<>>), <<e>> \o causes, steps,
          locals, logs \o <<LogRec("error", "Password decryption failed: ", e)>>)

\* bug: the tag is sliced before the IV
UnpackTagBeforeIv(encrypted_data) ==
  [salt |-> Slice(encrypted_data, 0, SALT_SIZE),
   tag |-> Slice(encrypted_data, SALT_SIZE, SALT_SIZE + TAG_SIZE),
   iv |-> Slice(encrypted_data, SALT_SIZE + TAG_SIZE, SALT_SIZE + TAG_SIZE + IV_SIZE),
   ciphertext |-> Slice(encrypted_data, SALT_SIZE + IV_SIZE + TAG_SIZE, Len(encrypted_data)),
   key |-> <<>>]

\* lines 156-159: the fixed-offset slices of the decoded envelope
Unpack(encrypted_data) ==
  [salt |-> Slice(encrypted_data, 0, SALT_SIZE),
   iv |-> Slice(encrypted_data, SALT_SIZE, SALT_SIZE + IV_SIZE),
   tag |-> Slice(encrypted_data, SALT_SIZE + IV_SIZE, SALT_SIZE + IV_SIZE + TAG_SIZE),
   ciphertext |-> Slice(encrypted_data, SALT_SIZE + IV_SIZE + TAG_SIZE, Len(encrypted_data)),
   key |-> <<>>]

\* bug: the minimum length leaves the tag out
TooShortWithoutTag(encrypted_data) == Len(encrypted_data) < SALT_SIZE + IV_SIZE

\* lines 151-153: the minimum-length check
TooShort(encrypted_data) == Len(encrypted_data) < SALT_SIZE + IV_SIZE + TAG_SIZE

\* bug: update() without finalize(), so the tag is never verified
OpenWithoutFinalize(key, iv, tag, ciphertext) == <<TRUE, CTR(key, iv, ciphertext)>>

\* lines 164-173: the AES-GCM decryptor; update() then finalize(), which raises
\* InvalidTag unless the tag verifies.  <<TRUE, plaintext_bytes>> or <<FALSE, <<>>>>
Open(key, iv, tag, ciphertext) ==
  IF GMAC(key, iv, ciphertext) = tag THEN <<TRUE, CTR(key, iv, ciphertext)>>
  ELSE <<FALSE, <<>>>>

\* bug: only the envelope is checked before the try block
DecryptGuardEnvelopeOnly(encrypted_password, master_key) ==
  IF encrypted_password = <<>> THEN
    <<Exc("ValueError", "Encrypted password cannot be empty", <<>>)>>
  ELSE <<>>

\* lines 140-144: the argument checks made before the try block
DecryptGuard(encrypted_password, master_key) ==
  IF encrypted_password = <<>> THEN
    <<Exc("ValueError", "Encrypted password cannot be empty", <<>>)>>
  ELSE IF master_key = <<>> THEN
    <<Exc("ValueError", "Master key cannot be empty", <<>>)>>
  ELSE <<>>

\* line 176: plaintext_bytes.decode('utf-8') and the return
DecodePlaintext(plaintext_bytes, steps, locals) ==
  The({IF ~text[1] THEN
         DecryptHandler(Exc("UnicodeDecodeError", "'utf-8' codec can't decode byte", text[2]),
                        <<>>, steps, locals, <<>>)
       ELSE Return(text[2], steps, locals, <<>>) :
       text \in {UTF8Decode(plaintext_bytes)}})

\* lines 164-176, once the key is derived
DecryptWithKey(parts, key) ==
  The({IF ~opened[1] THEN
         DecryptHandler(Exc("InvalidTag", "", <<>>), <<>>,
                        <<"b64decode", "derive", "cipher">>, [parts EXCEPT !.key = key], <<>>)
       ELSE DecodePlaintext(opened[2], <<"b64decode", "derive", "cipher">>,
                            [parts EXCEPT !.key = key]) :
       opened \in {Open(key, parts.iv, parts.tag, parts.ciphertext)}})

\* bug: the key is derived from the IV instead of the stored salt
DecryptPartsDeriveFromIv(parts, master_key, kdfOk) ==
  The({IF ~d[1] THEN DecryptHandler(d[2], d[3], <<"b64decode", "derive">>, parts, d[4])
       ELSE DecryptWithKey(parts, d[2]) :
       d \in {derive_key_from_master(master_key, parts.iv, kdfOk)}})

\* lines 155-176, once the envelope is decoded and long enough
DecryptParts(parts, master_key, kdfOk) ==
  The({IF ~d[1] THEN DecryptHandler(d[2], d[3], <<"b64decode", "derive">>, parts, d[4])
       ELSE DecryptWithKey(parts, d[2]) :
       d \in {derive_key_from_master(master_key, parts.salt, kdfOk)}})

\* lines 146-183: the try block
DecryptBody(encrypted_password, master_key, kdfOk) ==
  The({IF ~decoded[1] THEN
         DecryptHandler(Exc("binascii.Error", "Incorrect padding", <<>>), <<>>,
                        <<"b64decode">>, NoLocals, <<>>)
       ELSE IF TooShort(decoded[2]) THEN
         DecryptHandler(Exc("ValueError", "Invalid encrypted data format", <<>>), <<>>,
                        <<"b64decode">>, NoLocals, <<>>)
       ELSE The({DecryptParts(parts, master_key, kdfOk) : parts \in {Unpack(decoded[2])}}) :
       decoded \in {B64Decode(UTF8Encode(encrypted_password))}})

\* decrypt_password(encrypted_password, master_key)
decrypt_password(encrypted_password, master_key, kdfOk) ==
  The({IF guard # <<>> THEN Raise(guard[1], <<>>, <<>>, NoLocals, <<>>)
       ELSE DecryptBody(encrypted_password, master_key, kdfOk) :
       guard \in {DecryptGuard(encrypted_password, master_key)}})

\* bug: no except clause, the failing step's error propagates as it is
RotateHandlerReraise(failed) == failed

\* the `except Exception` clause of change_password_encryption (lines 215-217)
RotateHandler(failed) ==
  Raise(Exc("RuntimeError", "Password re-encryption failed", <<>>),
        <<ExcOf(failed)>> \o failed.causes, failed.steps, failed.locals,
        failed.logs \o <<LogRec("error", "Password re-encryption failed: ", ExcOf(failed))>>)

\* lines 207-213: the encrypt step, after dec = the decrypt step's outcome
RotateEncrypt(dec, new_master_key, salt, iv, kdfOk) ==
  The({IF enc.kind # "ok"
       THEN RotateHandler([enc EXCEPT !.steps = dec.steps \o enc.steps,
                                      !.logs = dec.logs \o enc.logs])
       ELSE [enc EXCEPT !.steps = dec.steps \o enc.steps, !.logs = dec.logs \o enc.logs] :
       enc \in {The({encrypt_password(plaintext, new_master_key, salt, iv, kdfOk) :
                     plaintext \in {dec.value}})}})

\* bug: the encrypt step is given the old master key
RotateWithOldKey(old_encrypted, old_master_key, new_master_key, salt, iv, kdfOkOld, kdfOkNew) ==
  The({IF dec.kind # "ok" THEN RotateHandler(dec)
       ELSE RotateEncrypt(dec, old_master_key, salt, iv, kdfOkNew) :
       dec \in {decrypt_password(old_encrypted, old_master_key, kdfOkOld)}})

\* change_password_encryption(old_encrypted, old_master_key, new_master_key)
change_password_encryption(old_encrypted, old_master_key, new_master_key, salt, iv, kdfOkOld, kdfOkNew) ==
  The({IF dec.kind # "ok" THEN RotateHandler(dec)
       ELSE RotateEncrypt(dec, new_master_key, salt, iv, kdfOkNew) :
       dec \in {decrypt_password(old_encrypted, old_master_key, kdfOkOld)}})

\* bug: `except ValueError` instead of `except Exception`
VerifyCatchesValueError(kind) == IsValueError(kind)

\* secrets.token_hex: two lower-case hexadecimal digits for every byte
HexDigit(v) == IF v < 10 THEN 48 + v ELSE 87 + v

TokenHex(raw) ==
  Flatten(AsSeq([i \in 1..Len(raw) |-> <<HexDigit(raw[i] \div 16), HexDigit(raw[i] % 16)>>]))

\* bug: token_hex(16), a key of 128 bits
GenerateShortKey(raw) ==
  Return(TokenHex(SubSeq(raw, 1, 16)), <<"token_hex">>, NoLocals, <<>>)

\* generate_encryption_key(), raw = the 32 bytes the random source returns
generate_encryption_key(raw) == Return(TokenHex(raw), <<"token_hex">>, NoLocals, <<>>)

\* lines 248-252: which outcomes of the decrypt call `except Exception` turns into False
VerifyCatches(kind) == IsException(kind)

\* verify_encryption_integrity(encrypted_password, master_key)
verify_encryption_integrity(encrypted_password, master_key, kdfOk) ==
  The({IF dec.kind = "ok" THEN Return(TRUE, dec.steps, NoLocals, dec.logs)
       ELSE IF VerifyCatches(dec.kind) THEN Return(FALSE, dec.steps, NoLocals, dec.logs)
       ELSE [dec EXCEPT !.locals = NoLocals] :
       dec \in {decrypt_password(encrypted_password, master_key, kdfOk)}})

\* a | b and a ^ b on Python integers (the code points of characters)
RECURSIVE BitOr(_, _)
BitOr(a, b) ==
  IF a = 0 THEN b
  ELSE IF b = 0 THEN a
  ELSE (IF a % 2 = 1 \/ b % 2 = 1 THEN 1 ELSE 0) + 2 * BitOr(a \div 2, b \div 2)

RECURSIVE BitXor(_, _)
BitXor(a, b) ==
  IF a = 0 THEN b
  ELSE IF b = 0 THEN a
  ELSE ((a + b) % 2) + 2 * BitXor(a \div 2, b \div 2)

\* bug: `=` instead of `|=`, only the last pair of characters decides
AccumulateLast(result, x, y) == BitXor(x, y)

\* secure_compare, line 275: result |= ord(x) ^ ord(y)
Accumulate(result, x, y) == BitOr(result, BitXor(x, y))

RECURSIVE CompareLoop(_, _, _, _)
\* secure_compare, lines 274-275: the loop over zip(a, b) from pair number i on;
\* <<result, number of passes made>>
CompareLoop(a, b, i, result) ==
  IF i > Len(a) \/ i > Len(b) THEN <<result, i - 1>>
  ELSE The({CompareLoop(a, b, i + 1, r) : r \in {Accumulate(result, a[i], b[i])}})

\* secure_compare(a, b); steps has one entry for every pass of the loop
secure_compare(a, b) ==
  IF Len(a) # Len(b) THEN Return(FALSE, <<>>, NoLocals, <<>>)
  ELSE The({Return(r[1] = 0, AsSeq([i \in 1..r[2] |-> "xor"]), NoLocals, <<>>) :
            r \in {CompareLoop(a, b, 1, 0)}})

(***************************************************************************)
(* auth.py, with a stand-in for the bcrypt library.  strict tells which    *)
(* bcrypt is installed: one that raises ValueError for a password of more  *)
(* than 72 bytes (5.0 and later) or one that ignores the bytes after the   *)
(* 72nd (earlier releases).                                                *)
(***************************************************************************)
BCRYPT_ROUNDS == 12

\* the bytes of a password that bcrypt works with
BcryptLimit == 72

\* "$2b$12$", the head of every salt and hash made with BCRYPT_ROUNDS rounds
BcryptPrefix ==
  <<36, 50, 98, 36, 48 + (BCRYPT_ROUNDS \div 10), 48 + (BCRYPT_ROUNDS % 10), 36>>

\* bcrypt.gensalt(rounds): the head and the 22 characters for the 16 random bytes raw
Gensalt(raw) == BcryptPrefix \o SubSeq(B64Encode(raw), 1, 22)

\* bcrypt.hashpw(password, salt): the 29 characters of the salt and 31 characters
\* that depend on the salt and on the first 72 bytes of the password; a salt is
\* the head and 22 characters of the alphabet.  <<TRUE, hash>> or <<FALSE, exception>>
Hashpw(password, salt, strict) ==
  IF strict /\ Len(password) > BcryptLimit THEN
    <<FALSE, Exc("ValueError", "password cannot be longer than 72 bytes", <<>>)>>
  ELSE IF ~(/\ Len(salt) >= 29
            /\ SubSeq(salt, 1, 7) = BcryptPrefix
            /\ \A i \in 8..29 : IsB64Data(salt[i])) THEN
    <<FALSE, Exc("ValueError", "Invalid salt", <<>>)>>
  ELSE The({<<TRUE, SubSeq(salt, 1, 29)
                    \o AsSeq([i \in 1..31 |->
                                B64Char(((IF i % 2 = 0 THEN h \div 4 ELSE h % 64) + 7 * i
                                         + salt[8 + (i % 22)]) % 64)])>> :
            h \in {Digest(SubSeq(password, 1,
                                 IF Len(password) > BcryptLimit THEN BcryptLimit
                                 ELSE Len(password)))}})

\* bcrypt.checkpw(password, hashed_password): hashes the password with the salt of
\* hashed_password and compares.  <<TRUE, equal>> or <<FALSE, exception>>
Checkpw(password, hashed_password, strict) ==
  The({IF ~ret[1] THEN ret ELSE <<TRUE, ret[2] = hashed_password>> :
       ret \in {Hashpw(password, hashed_password, strict)}})

\* hash_password(password), raw = the 16 bytes gensalt takes from the random source;
\* HashHandler is the `except Exception` clause (lines 48-50)
hash_password(password, raw, strict) ==
  LET HashHandler(e) ==
        Raise(Exc("RuntimeError", "Password hashing failed", <<>>), <<e>>,
              <<"gensalt", "hashpw">>, NoLocals,
              <<LogRec("error", "Password hashing failed: ", e)>>)
  IN
  IF password = <<>> THEN
    Raise(Exc("ValueError", "Password cannot be empty", <<>>), <<>>, <<>>, NoLocals, <<>>)
  ELSE IF Len(password) < 8 THEN
    Raise(Exc("ValueError", "Password must be at least 8 characters long", <<>>), <<>>, <<>>,
          NoLocals, <<>>)
  ELSE The({IF ~hashed[1] THEN HashHandler(hashed[2])
            ELSE The({IF ~text[1] THEN
                        HashHandler(Exc("UnicodeDecodeError",
                                        "'utf-8' codec can't decode byte", text[2]))
                      ELSE Return(text[2], <<"gensalt", "hashpw">>, NoLocals, <<>>) :
                      text \in {UTF8Decode(hashed[2])}}) :
            hashed \in {Hashpw(UTF8Encode(password), Gensalt(raw), strict)}})

\* verify_password(password, password_hash)
verify_password(password, password_hash, strict) ==
  IF password = <<>> \/ password_hash = <<>> THEN
    Return(FALSE, <<>>, NoLocals,
           <<LogRec("warning", "Password or hash is empty during verification",
                    Exc("", "", <<>>))>>)
  ELSE The({IF ~result[1] THEN
              Return(FALSE, <<"checkpw">>, NoLocals,
                     <<LogRec("error", "Password verification error: ", result[2])>>)
            ELSE IF ~result[2] THEN
              Return(FALSE, <<"checkpw">>, NoLocals,
                     <<LogRec("warning", "Password verification failed", Exc("", "", <<>>))>>)
            ELSE Return(TRUE, <<"checkpw">>, NoLocals, <<>>) :
            result \in {Checkpw(UTF8Encode(password), UTF8Encode(password_hash), strict)}})

(***************************************************************************)
(* A caller of the module.                                                 *)
(*   rngOut  the values secrets.token_bytes has returned so far            *)
(*   vault   the envelopes the caller holds, each with the plaintext and   *)
(*           master key it was made from and the segments that were packed *)
(*   last    the call that has just returned (op = "none": the caller is   *)
(*           between calls)                                                *)
(*   faulty  whether the platform's KDF primitive may fail in this run     *)
(***************************************************************************)
Plaintexts == {<<115, 51>>, <<112, 233>>}                  \* "s3", "pé"
Keys == {<<107, 101, 121, 65>>, <<107, 101, 121, 66>>}     \* "keyA", "keyB"
Empty == <<>>                                              \* ""

\* strings that no encrypt_password call returned
Raw10 == B64Encode(AsSeq([i \in 1..10 |-> 7 * i]))
Raw63 == B64Encode(AsSeq([i \in 1..(SALT_SIZE + IV_SIZE + TAG_SIZE - 1) |-> i]))
Raw64 == B64Encode(AsSeq([i \in 1..(SALT_SIZE + IV_SIZE + TAG_SIZE) |-> 200 + (i % 7)]))
NotB64 == <<33, 33, 63>>                                   \* "!!?"
Dangling == <<81, 85, 74>>                                 \* "QUJ"
RawEnvelopes == {Raw10, Raw63, Raw64, NotB64, Dangling}

\* the values the secure random source can return for a request of n bytes
RandomPool(n) == {TokenBytes(n, id) : id \in 1..MaxEnvelopes}
\* ... and has not returned before
Fresh(n) == RandomPool(n) \ rngOut

KdfOutcomes == IF faulty THEN BOOLEAN ELSE {TRUE}

NoTamper == [segment |-> "none", pos |-> 0, of |-> <<>>]

Idle == [op |-> "none", pt |-> <<>>, env |-> <<>>, key |-> <<>>, newKey |-> <<>>,
         salt |-> <<>>, tamper |-> NoTamper, out |-> Return(<<>>, <<>>, NoLocals, <<>>)]

\* the byte changes an attacker makes to one byte of an envelope
TamperDeltas == {1, 128}

\* the segment of the envelope layout that byte number pos (from 1) lies in
SegmentOf(pos) ==
  IF pos <= SALT_SIZE THEN "salt"
  ELSE IF pos <= SALT_SIZE + IV_SIZE THEN "iv"
  ELSE IF pos <= SALT_SIZE + IV_SIZE + TAG_SIZE THEN "tag"
  ELSE "ciphertext"

Held == {e.env : e \in vault}

Drew(out) == \E i \in 1..Len(out.steps) : out.steps[i] = "token_bytes"

\* the threads that run calls of the module at the same time
Threads == {"t1", "t2"}

\* the frame of a thread that runs no call
IdleFrame ==
  [pc |-> "idle", op |-> "none", inner |-> "none", pt |-> <<>>, env |-> <<>>,
   key |-> <<>>, newKey |-> <<>>, salt |-> <<>>, iv |-> <<>>, locals |-> NoLocals,
   dec |-> Return(<<>>, <<>>, NoLocals, <<>>), out |-> Return(<<>>, <<>>, NoLocals, <<>>)]

\* no request answered yet
NoResponse ==
  [route |-> "none", id |-> 0, status |-> 0, template |-> "", redirect |-> "",
   flash |-> <<>>, listing |-> <<>>, form |-> <<>>]

\* no thread runs a call; the web application has an empty database and no session
InitRest ==
  /\ frames = [t \in Threads |-> IdleFrame]
  /\ users = <<>>
  /\ passwords = <<>>
  /\ current_user = 0
  /\ response = NoResponse
  /\ applog = <<>>

Init ==
  /\ rngOut = {}
  /\ vault = {}
  /\ last = Idle
  /\ faulty = FALSE
  /\ InitRest

\* the caller calls encrypt_password(P, K) and keeps the envelope it returns
EncryptCall ==
  /\ last.op = "none"
  /\ \E P \in Plaintexts \cup {Empty}, K \in Keys \cup {Empty},
        salt \in Fresh(SALT_SIZE), iv \in Fresh(IV_SIZE), kdfOk \in KdfOutcomes :
       \E out \in {encrypt_password(P, K, salt, iv, kdfOk)} :
           /\ last' = [Idle EXCEPT !.op = "encrypt", !.pt = P, !.key = K, !.out = out]
           /\ rngOut' = IF Drew(out) THEN rngOut \cup {salt, iv} ELSE rngOut
           /\ vault' = IF out.kind = "ok"
                       THEN vault \cup {[env |-> out.value, pt |-> P, key |-> K,
                                         how |-> "encrypt", src |-> <<>>,
                                         parts |-> out.locals]}
                       ELSE vault
  /\ UNCHANGED <<faulty, frames, web>>

\* the caller calls decrypt_password(E, K) on an envelope it holds or on other text
DecryptCall ==
  /\ last.op = "none"
  /\ \E E \in Held \cup RawEnvelopes \cup {Empty}, K \in Keys \cup {Empty},
        kdfOk \in KdfOutcomes :
       last' = [Idle EXCEPT !.op = "decrypt", !.env = E, !.key = K,
                            !.out = decrypt_password(E, K, kdfOk)]
  /\ UNCHANGED <<rngOut, vault, faulty, frames, web>>

\* the caller calls change_password_encryption(E, KA, KB) and keeps the new envelope
RotateCall ==
  /\ last.op = "none"
  /\ \E E \in Held \cup {Raw10}, KA \in Keys \cup {Empty}, KB \in Keys \cup {Empty},
        salt \in Fresh(SALT_SIZE), iv \in Fresh(IV_SIZE),
        kdfOkOld \in KdfOutcomes, kdfOkNew \in KdfOutcomes :
       \E out \in {change_password_encryption(E, KA, KB, salt, iv, kdfOkOld, kdfOkNew)} :
           /\ last' = [Idle EXCEPT !.op = "rotate", !.env = E, !.key = KA, !.newKey = KB,
                                   !.out = out]
           /\ rngOut' = IF Drew(out) THEN rngOut \cup {salt, iv} ELSE rngOut
           /\ vault' = IF out.kind = "ok"
                       THEN vault \cup {[env |-> out.value,
                                         pt |-> decrypt_password(E, KA, kdfOkOld).value,
                                         key |-> KB,
                                         how |-> "rotate", src |-> E,
                                         parts |-> out.locals]}
                       ELSE vault
  /\ UNCHANGED <<faulty, frames, web>>

\* the caller calls verify_encryption_integrity(E, K)
VerifyCall ==
  /\ last.op = "none"
  /\ \E E \in Held \cup {Raw10, NotB64, Empty}, K \in Keys \cup {Empty},
        kdfOk \in KdfOutcomes :
       last' = [Idle EXCEPT !.op = "verify", !.env = E, !.key = K,
                            !.out = verify_encryption_integrity(E, K, kdfOk)]
  /\ UNCHANGED <<rngOut, vault, faulty, frames, web>>

\* someone changes one byte of an envelope the caller holds, and the caller calls
\* decrypt_password on the result with the envelope's own key
TamperedDecryptCall ==
  /\ last.op = "none"
  /\ \E e \in vault, delta \in TamperDeltas, kdfOk \in KdfOutcomes :
       \E data \in {B64Decode(UTF8Encode(e.env))[2]} :
         \E pos \in 1..Len(data) :
           \E forged \in {B64Encode([data EXCEPT ![pos] = (@ + delta) % 256])} :
             last' = [Idle EXCEPT !.op = "decrypt", !.env = forged, !.key = e.key,
                                  !.tamper = [segment |-> SegmentOf(pos), pos |-> pos,
                                              of |-> e.env],
                                  !.out = decrypt_password(forged, e.key, kdfOk)]
  /\ UNCHANGED <<rngOut, vault, faulty, frames, web>>

\* the caller has used the result and goes on
Resume ==
  /\ last.op # "none"
  /\ last' = Idle
  /\ UNCHANGED <<rngOut, vault, faulty, frames, web>>

Next == EncryptCall \/ DecryptCall \/ RotateCall \/ VerifyCall \/ Resume

Spec == Init /\ [][Next]_vars

\* The tamper scenario: the caller makes one envelope, someone changes a byte of it,
\* the caller decrypts what it got back.  decrypt_password reads nothing but its
\* arguments, so one envelope per run covers every envelope.
EncryptOnce == vault = {} /\ EncryptCall

NextTamper == EncryptOnce \/ TamperedDecryptCall \/ Resume

SpecTamper == Init /\ [][NextTamper]_vars

(***************************************************************************)
(* Envelope sizes: the caller encrypts texts of 1 to 9 UTF-8 bytes, made   *)
(* of 1-, 2- and 3-byte characters, and decrypts what it got back.         *)
(***************************************************************************)
\* "a", "pé", "€", "P@ssw0rd!"
SizedPlaintexts == {<<97>>, <<112, 233>>, <<8364>>, <<80, 64, 115, 115, 119, 48, 114, 100, 33>>}

EncryptSizedCall ==
  /\ last.op = "none"
  /\ vault = {}
  /\ \E P \in SizedPlaintexts, K \in Keys,
        salt \in Fresh(SALT_SIZE), iv \in Fresh(IV_SIZE), kdfOk \in KdfOutcomes :
       \E out \in {encrypt_password(P, K, salt, iv, kdfOk)} :
           /\ last' = [Idle EXCEPT !.op = "encrypt", !.pt = P, !.key = K, !.out = out]
           /\ rngOut' = IF Drew(out) THEN rngOut \cup {salt, iv} ELSE rngOut
           /\ vault' = IF out.kind = "ok"
                       THEN vault \cup {[env |-> out.value, pt |-> P, key |-> K,
                                         how |-> "encrypt", src |-> <<>>,
                                         parts |-> out.locals]}
                       ELSE vault
  /\ UNCHANGED <<faulty, frames, web>>

\* the caller calls decrypt_password(E, K) on an envelope it holds
DecryptHeldCall ==
  /\ last.op = "none"
  /\ \E E \in Held, K \in Keys, kdfOk \in KdfOutcomes :
       last' = [Idle EXCEPT !.op = "decrypt", !.env = E, !.key = K,
                            !.out = decrypt_password(E, K, kdfOk)]
  /\ UNCHANGED <<rngOut, vault, faulty, frames, web>>

NextSized == EncryptSizedCall \/ DecryptHeldCall \/ Resume

SpecSized == Init /\ [][NextSized]_vars

(***************************************************************************)
(* Runs in which the platform's KDF primitive may fail in any call, in     *)
(* which the caller also derives keys and generates master keys itself,    *)
(* and in which it is handed envelopes that another program sealed under   *)
(* its master key.                                                         *)
(***************************************************************************)
InitFault ==
  /\ rngOut = {}
  /\ vault = {}
  /\ last = Idle
  /\ faulty = TRUE
  /\ InitRest

\* what a direct caller of derive_key_from_master gets
DeriveOutcome(d) ==
  IF d[1] THEN Return(d[2], <<"derive">>, NoLocals, <<>>)
  ELSE Raise(d[2], d[3], IF d[3] = <<>> THEN <<>> ELSE <<"derive">>, NoLocals, d[4])

\* the caller calls derive_key_from_master(K, S)
DeriveCall ==
  /\ last.op = "none"
  /\ \E K \in Keys \cup {Empty}, S \in RandomPool(SALT_SIZE), kdfOk \in KdfOutcomes :
       last' = [Idle EXCEPT !.op = "derive", !.key = K, !.salt = S,
                            !.out = DeriveOutcome(derive_key_from_master(K, S, kdfOk))]
  /\ UNCHANGED <<rngOut, vault, faulty, frames, web>>

\* the caller calls generate_encryption_key()
GenerateKeyCall ==
  /\ last.op = "none"
  /\ \E raw \in Fresh(AES_KEY_SIZE) :
       /\ last' = [Idle EXCEPT !.op = "generate", !.out = generate_encryption_key(raw)]
       /\ rngOut' = rngOut \cup {raw}
  /\ UNCHANGED <<vault, faulty, frames, web>>

\* byte strings that are not UTF-8: a lone continuation of "p", Latin-1 "pé", 0xFF
ForeignPlaintexts == {<<112, 128>>, <<112, 233>>, <<255>>}

\* the envelope another program makes of the bytes B under master key K
ForeignEnvelope(B, K) ==
  The({The({B64Encode(Pack(TokenBytes(SALT_SIZE, 0), TokenBytes(IV_SIZE, 0),
                           sealed[2], sealed[1])) :
            sealed \in {Seal(key, TokenBytes(IV_SIZE, 0), B)}}) :
       key \in {PBKDF2(UTF8Encode(K), TokenBytes(SALT_SIZE, 0), AES_KEY_SIZE)}})

\* the caller calls decrypt_password on such an envelope, with the key it was sealed under
ForeignDecryptCall ==
  /\ last.op = "none"
  /\ \E B \in ForeignPlaintexts, K \in Keys, kdfOk \in KdfOutcomes :
       \E E \in {ForeignEnvelope(B, K)} :
         last' = [Idle EXCEPT !.op = "decrypt", !.env = E, !.key = K,
                              !.tamper = [segment |-> "foreign", pos |-> 0, of |-> B],
                              !.out = decrypt_password(E, K, kdfOk)]
  /\ UNCHANGED <<rngOut, vault, faulty, frames, web>>

\* the caller calls change_password_encryption on such an envelope
ForeignRotateCall ==
  /\ last.op = "none"
  /\ \E B \in ForeignPlaintexts, KA \in Keys, KB \in Keys,
        kdfOkOld \in KdfOutcomes, kdfOkNew \in KdfOutcomes :
       \E E \in {ForeignEnvelope(B, KA)} :
         \E out \in {change_password_encryption(E, KA, KB, TokenBytes(SALT_SIZE, 1),
                                                TokenBytes(IV_SIZE, 1), kdfOkOld, kdfOkNew)} :
           /\ out.kind # "ok"
           /\ last' = [Idle EXCEPT !.op = "rotate", !.env = E, !.key = KA, !.newKey = KB,
                                   !.tamper = [segment |-> "foreign", pos |-> 0, of |-> B],
                                   !.out = out]
  /\ UNCHANGED <<rngOut, vault, faulty, frames, web>>

NextFault ==
  \/ EncryptOnce
  \/ DecryptCall
  \/ DeriveCall
  \/ GenerateKeyCall
  \/ ForeignDecryptCall
  \/ ForeignRotateCall
  \/ Resume

SpecFault == InitFault /\ [][NextFault]_vars

(***************************************************************************)
(* Concurrent callers.  Every thread runs one call of the module, a step   *)
(* at a time: the argument checks, the two draws, the key derivation, the  *)
(* codec and the cipher.  All the variables of the functions are locals,   *)
(* kept in the thread's frame; the random source is all the threads share. *)
(*   frames  for every thread the call it runs: its arguments, where it    *)
(*           stands (pc), its local variables, its own draws (salt, iv)    *)
(*           and, once it is done, its outcome                             *)
(***************************************************************************)
\* the envelope that the concurrent calls are given
StoredEnvelope ==
  encrypt_password(<<112, 233>>, <<107, 101, 121, 65>>, TokenBytes(SALT_SIZE, 0),
                   TokenBytes(IV_SIZE, 0), TRUE).value

\* the calls a thread may make
Calls ==
  {[IdleFrame EXCEPT !.op = "encrypt", !.pt = <<115, 51>>, !.key = K] :
     K \in {<<107, 101, 121, 65>>, Empty}}
  \cup {[IdleFrame EXCEPT !.op = o, !.env = E, !.key = K] :
          o \in {"decrypt", "verify"}, E \in {StoredEnvelope, Raw10}, K \in Keys}
  \cup {[IdleFrame EXCEPT !.op = "rotate", !.env = StoredEnvelope, !.key = KA, !.newKey = KB] :
          KA \in Keys, KB \in Keys \cup {Empty}}

\* the arguments of the encrypt_password or decrypt_password call the frame is in
ArgPlaintext(f) == IF f.op = "rotate" THEN f.dec.value ELSE f.pt
ArgMasterKey(f) == IF f.op = "rotate" /\ f.inner = "enc" THEN f.newKey ELSE f.key

\* bug: the derived key is kept in a module-level variable, which another thread's
\* derivation overwrites
KeyInModule(t) ==
  IF \E u \in Threads \ {t} : frames[u].locals.key # <<>>
  THEN frames[CHOOSE u \in Threads \ {t} : frames[u].locals.key # <<>>].locals.key
  ELSE frames[t].locals.key

\* lines 95 and 162: key is a local variable of the call
KeyIn(t) == frames[t].locals.key

\* the frame after its encrypt_password or decrypt_password call ended with inner:
\* the end of the thread's call, or the second half of a rotation (lines 205-217,
\* 248-252)
Complete(f, inner) ==
  IF f.op = "verify" THEN
    [f EXCEPT !.pc = "done",
              !.out = IF inner.kind = "ok" THEN Return(TRUE, inner.steps, NoLocals, inner.logs)
                      ELSE IF VerifyCatches(inner.kind)
                        THEN Return(FALSE, inner.steps, NoLocals, inner.logs)
                      ELSE [inner EXCEPT !.locals = NoLocals]]
  ELSE IF f.op = "rotate" /\ f.inner = "dec" THEN
    IF inner.kind # "ok" THEN [f EXCEPT !.pc = "done", !.out = RotateHandler(inner)]
    ELSE [f EXCEPT !.pc = "guard", !.inner = "enc", !.dec = inner, !.locals = NoLocals]
  ELSE IF f.op = "rotate" THEN
    The({[f EXCEPT !.pc = "done",
                   !.out = IF inner.kind # "ok" THEN RotateHandler(whole) ELSE whole] :
         whole \in {[inner EXCEPT !.steps = f.dec.steps \o inner.steps,
                                  !.logs = f.dec.logs \o inner.logs]}})
  ELSE [f EXCEPT !.pc = "done", !.out = inner]

\* a thread calls one of the four functions
Call ==
  \E t \in Threads, c \in Calls :
    /\ frames[t].pc = "idle"
    /\ frames' = [frames EXCEPT ![t] = [c EXCEPT !.pc = "guard",
                                                 !.inner = IF c.op = "encrypt" THEN "enc"
                                                           ELSE "dec"]]
    /\ UNCHANGED <<crypto, web>>

\* lines 83-87 and 140-144
GuardStep ==
  \E t \in Threads :
    /\ frames[t].pc = "guard"
    /\ \E f \in {frames[t]} :
         \E guard \in {IF f.inner = "enc" THEN EncryptGuard(ArgPlaintext(f), ArgMasterKey(f))
                       ELSE DecryptGuard(f.env, ArgMasterKey(f))} :
           frames' = [frames EXCEPT ![t] =
                        IF guard # <<>>
                        THEN Complete(f, Raise(guard[1], <<>>, <<>>, NoLocals, <<>>))
                        ELSE [f EXCEPT !.pc = IF f.inner = "enc" THEN "salt" ELSE "decode"]]
    /\ UNCHANGED <<crypto, web>>

\* line 91
DrawSalt ==
  \E t \in Threads, salt \in Fresh(SALT_SIZE) :
    /\ frames[t].pc = "salt"
    /\ frames' = [frames EXCEPT ![t].pc = "iv", ![t].salt = salt, ![t].locals.salt = salt]
    /\ rngOut' = rngOut \cup {salt}
    /\ UNCHANGED <<vault, last, faulty, web>>

\* line 92
DrawIv ==
  \E t \in Threads, iv \in Fresh(IV_SIZE) :
    /\ frames[t].pc = "iv"
    /\ frames' = [frames EXCEPT ![t].pc = "derive", ![t].iv = iv, ![t].locals.iv = iv]
    /\ rngOut' = rngOut \cup {iv}
    /\ UNCHANGED <<vault, last, faulty, web>>

\* lines 147-159: decode, check the length, slice
DecodeStep ==
  \E t \in Threads :
    /\ frames[t].pc = "decode"
    /\ \E f \in {frames[t]} :
         \E decoded \in {B64Decode(UTF8Encode(f.env))} :
           frames' = [frames EXCEPT ![t] =
             IF ~decoded[1] THEN
               Complete(f, DecryptHandler(Exc("binascii.Error", "Incorrect padding", <<>>),
                                          <<>>, <<"b64decode">>, NoLocals, <<>>))
             ELSE IF TooShort(decoded[2]) THEN
               Complete(f, DecryptHandler(Exc("ValueError", "Invalid encrypted data format",
                                              <<>>),
                                          <<>>, <<"b64decode">>, NoLocals, <<>>))
             ELSE [f EXCEPT !.pc = "derive", !.locals = Unpack(decoded[2])]]
    /\ UNCHANGED <<crypto, web>>

\* lines 95 and 162
DeriveStep ==
  \E t \in Threads, kdfOk \in KdfOutcomes :
    /\ frames[t].pc = "derive"
    /\ \E f \in {frames[t]} :
         \E d \in {derive_key_from_master(ArgMasterKey(f), f.locals.salt, kdfOk)} :
           frames' = [frames EXCEPT ![t] =
             IF d[1] THEN [f EXCEPT !.pc = IF f.inner = "enc" THEN "seal" ELSE "open",
                                    !.locals.key = d[2]]
             ELSE IF f.inner = "enc" THEN
               Complete(f, EncryptHandler(d[2], d[3], <<"token_bytes", "token_bytes", "derive">>,
                                          f.locals, d[4]))
             ELSE Complete(f, DecryptHandler(d[2], d[3], <<"b64decode", "derive">>,
                                             f.locals, d[4]))]
    /\ UNCHANGED <<crypto, web>>

\* lines 97-118
SealStep ==
  \E t \in Threads :
    /\ frames[t].pc = "seal"
    /\ \E f \in {frames[t]} :
         frames' = [frames EXCEPT ![t] =
                      Complete(f, EncryptWithKey(ArgPlaintext(f), f.locals.salt, f.locals.iv,
                                                 KeyIn(t)))]
    /\ UNCHANGED <<crypto, web>>

\* lines 164-176
OpenStep ==
  \E t \in Threads :
    /\ frames[t].pc = "open"
    /\ \E f \in {frames[t]} :
         frames' = [frames EXCEPT ![t] =
                      Complete(f, DecryptWithKey([f.locals EXCEPT !.key = <<>>], KeyIn(t)))]
    /\ UNCHANGED <<crypto, web>>

NextConc ==
  \/ Call
  \/ GuardStep
  \/ DrawSalt
  \/ DrawIv
  \/ DecodeStep
  \/ DeriveStep
  \/ SealStep
  \/ OpenStep

SpecConc == Init /\ [][NextConc]_vars

(***************************************************************************)
(* The web application's read requests (app.py): the dashboard listing and *)
(* the edit form of one record, against a database that holds records of   *)
(* two users, some of them damaged at rest.                                *)
(*   users         the rows of table users, user id = position             *)
(*   passwords     the rows of table passwords, in the order the queries   *)
(*                 return them                                             *)
(*   current_user  the id of the logged-in user of the session, 0 = none   *)
(*   response      the response to the last request                        *)
(*   applog        the log records the last request wrote                  *)
(***************************************************************************)
MaxRows == 2

\* two registered users, each with the encryption key made at registration
RegisteredUsers ==
  <<[id |-> 1, username |-> "alice", encryption_key |-> TokenHex(TokenBytes(32, 0))],
    [id |-> 2, username |-> "bob", encryption_key |-> TokenHex(TokenBytes(32, 9))]>>

\* the envelope add_password stores for password text pt of user number u
StoredFor(u, pt) ==
  encrypt_password(pt, RegisteredUsers[u].encryption_key, TokenBytes(SALT_SIZE, u),
                   TokenBytes(IV_SIZE, u), TRUE).value

\* a stored envelope cut short, and one with a changed ciphertext byte
Truncated(envelope) == SubSeq(envelope, 1, 40)
Flipped(envelope) ==
  The({B64Encode([data EXCEPT ![Len(data)] = (@ + 1) % 256]) :
       data \in {B64Decode(UTF8Encode(envelope))[2]}})

\* rows the table can hold: intact ones of both users and damaged ones of user 1
StoredRows ==
  {[id |-> 0, user_id |-> 1, service |-> "mail", encrypted_password |-> StoredFor(1, <<115, 51>>)],
   [id |-> 0, user_id |-> 1, service |-> "bank", encrypted_password |-> StoredFor(1, <<112, 233>>)],
   [id |-> 0, user_id |-> 2, service |-> "mail", encrypted_password |-> StoredFor(2, <<115, 51>>)],
   [id |-> 0, user_id |-> 1, service |-> "shop",
    encrypted_password |-> Truncated(StoredFor(1, <<115, 51>>))],
   [id |-> 0, user_id |-> 1, service |-> "wiki",
    encrypted_password |-> Flipped(StoredFor(1, <<115, 51>>))]}

InitDashboard ==
  /\ rngOut = {}
  /\ vault = {}
  /\ last = Idle
  /\ faulty = FALSE
  /\ frames = [t \in Threads |-> IdleFrame]
  /\ users = RegisteredUsers
  /\ \E n \in 0..MaxRows :
       \E rows \in [1..n -> StoredRows] :
         passwords = AsSeq([i \in 1..n |-> [rows[i] EXCEPT !.id = i]])
  /\ current_user \in {0, 1, 2}
  /\ response = NoResponse
  /\ applog = <<>>

\* @login_required without a session: redirect to the login view (app.py lines 38-42)
LoginRequired ==
  [NoResponse EXCEPT !.status = 302, !.redirect = "login",
                     !.flash = <<"Please log in to access this page.">>]

RECURSIVE DashboardLoopBreak(_, _, _, _)
\* bug: `break` instead of `continue`, the listing ends at the first damaged record
DashboardLoopBreak(pwds, key, listing, log) ==
  IF pwds = <<>> THEN <<listing, log>>
  ELSE The({IF out.kind = "ok" THEN
              DashboardLoopBreak(Tail(pwds), key,
                                 Append(listing, [id |-> Head(pwds).id,
                                                  service |-> Head(pwds).service,
                                                  password |-> out.value]), log)
            ELSE <<listing,
                   Append(log, [level |-> "error", text |-> "Decryption error for password ID",
                                id |-> Head(pwds).id, err |-> out.msg])>> :
            out \in {decrypt_password(Head(pwds).encrypted_password, key, TRUE)}})

RECURSIVE DashboardLoop(_, _, _, _)
\* dashboard, lines 162-179: the loop over the user's records
DashboardLoop(pwds, key, listing, log) ==
  IF pwds = <<>> THEN <<listing, log>>
  ELSE The({IF out.kind = "ok" THEN
              DashboardLoop(Tail(pwds), key,
                            Append(listing, [id |-> Head(pwds).id,
                                             service |-> Head(pwds).service,
                                             password |-> out.value]), log)
            ELSE DashboardLoop(Tail(pwds), key, listing,
                   Append(log, [level |-> "error", text |-> "Decryption error for password ID",
                                id |-> Head(pwds).id, err |-> out.msg])) :
            out \in {decrypt_password(Head(pwds).encrypted_password, key, TRUE)}})

\* dashboard(), for the logged-in user: <<response, log records>>
dashboard(rows, user) ==
  LET Mine(p) == p.user_id = user.id
  IN  The({<<[NoResponse EXCEPT !.route = "dashboard", !.status = 200,
                                !.template = "dashboard.html", !.listing = r[1]], r[2]>> :
           r \in {DashboardLoop(SelectSeq(rows, Mine), user.encryption_key, <<>>, <<>>)}})

\* bug: the flash message tells what went wrong
EditDecryptFailedVerbose(password_id, out) ==
  <<[NoResponse EXCEPT !.route = "edit_password", !.id = password_id, !.status = 302,
                       !.redirect = "dashboard", !.flash = <<out.msg>>],
    <<[level |-> "error", text |-> "Error decrypting password for editing",
       id |-> 0, err |-> out.msg]>>>>

\* edit_password, lines 267-270: the except clause of the GET branch
EditDecryptFailed(password_id, out) ==
  <<[NoResponse EXCEPT !.route = "edit_password", !.id = password_id, !.status = 302,
                       !.redirect = "dashboard", !.flash = <<"Error loading password data.">>],
    <<[level |-> "error", text |-> "Error decrypting password for editing",
       id |-> 0, err |-> out.msg]>>>>

\* edit_password(password_id) for a GET request of the logged-in user
edit_password_get(rows, user, password_id) ==
  LET Wanted(p) == p.id = password_id /\ p.user_id = user.id
  IN  The({IF found = <<>> THEN
             <<[NoResponse EXCEPT !.route = "edit_password", !.id = password_id,
                                  !.status = 404, !.template = "404.html"], <<>>>>
           ELSE The({IF out.kind # "ok" THEN EditDecryptFailed(password_id, out)
                     ELSE <<[NoResponse EXCEPT !.route = "edit_password", !.id = password_id,
                                               !.status = 200,
                                               !.template = "edit_password.html",
                                               !.form = <<found[1].service, out.value>>],
                            <<>>>> :
                     out \in {decrypt_password(found[1].encrypted_password,
                                               user.encryption_key, TRUE)}}) :
           found \in {SelectSeq(rows, Wanted)}})

\* GET /dashboard
DashboardRequest ==
  /\ \E r \in {IF current_user = 0 THEN <<[LoginRequired EXCEPT !.route = "dashboard"], <<>>>>
               ELSE dashboard(passwords, users[current_user])} :
       /\ response' = r[1]
       /\ applog' = r[2]
  /\ UNCHANGED <<crypto, frames, users, passwords, current_user>>

\* GET /edit_password/<password_id>
EditPasswordGet ==
  /\ \E password_id \in 1..MaxRows :
       \E r \in {IF current_user = 0
                 THEN <<[LoginRequired EXCEPT !.route = "edit_password", !.id = password_id],
                        <<>>>>
                 ELSE edit_password_get(passwords, users[current_user], password_id)} :
         /\ response' = r[1]
         /\ applog' = r[2]
  /\ UNCHANGED <<crypto, frames, users, passwords, current_user>>

NextDashboard == DashboardRequest \/ EditPasswordGet

SpecDashboard == InitDashboard /\ [][NextDashboard]_vars

(***************************************************************************)
(* app.py, all routes.  A browser sends one request at a time; users and   *)
(* passwords are the tables, current_user is the user id in the session    *)
(* cookie (0 = none), response and applog are what the last request        *)
(* returned and logged, last the request itself, rngOut the random values  *)
(* drawn so far.  Integer primary keys are given as SQLite gives them: the *)
(* largest id in the table plus one.  Times are counted: 0 is NULL.        *)
(* commitOk = FALSE is a db.session.commit() that raises.                  *)
(***************************************************************************)
\* the random values one run of the application draws
MaxDraws == 8

\* the k-th value of n bytes a request draws from the secure random source: one the
\* source has not returned before
AppToken(n, k) == TokenBytes(n, 10 + Cardinality(rngOut) + k)

\* the next value of an autoincrementing INTEGER PRIMARY KEY
NextId(rows) ==
  IF rows = <<>> THEN 1
  ELSE 1 + (CHOOSE m \in {rows[i].id : i \in 1..Len(rows)} :
              \A i \in 1..Len(rows) : rows[i].id <= m)

\* load_user (lines 56-59): the rows of users with the id of the session, none when
\* there is no session or the user is gone (flask_login then sees an anonymous user)
CurrentUser ==
  LET Mine(u) == u.id = current_user
  IN  SelectSeq(users, Mine)

\* what a request leaves behind: the two tables, the session, the response, the log
\* records written and the random values drawn
Served(u, p, session, resp, log, drawn) ==
  [users |-> u, passwords |-> p, session |-> session, response |-> resp, log |-> log,
   drawn |-> drawn]

\* a response: status, template rendered or redirect target, flashed message
Respond(route, id, status, template, redirect, flash) ==
  [NoResponse EXCEPT !.route = route, !.id = id, !.status = status,
                     !.template = template, !.redirect = redirect, !.flash = flash]

\* a log record of the application
AppLog(level, text, err) == [level |-> level, text |-> text, id |-> 0, err |-> err]

\* the error handler for status 500 (lines 403-408), after an exception no view
\* caught: the transaction is rolled back
internal_error(route, rows, p, session) ==
  Served(rows, p, session, Respond(route, 0, 500, "500.html", "", <<>>),
         <<AppLog("error", "Internal server error", "commit failed")>>, {})

\* the request req is served and leaves o behind
Serve(req, o) ==
  /\ last' = req
  /\ users' = o.users
  /\ passwords' = o.passwords
  /\ current_user' = o.session
  /\ response' = o.response
  /\ applog' = o.log
  /\ rngOut' = rngOut \cup o.drawn
  /\ UNCHANGED <<vault, faulty, frames>>

\* bug: a view without @login_required
ProtectedNever(route, id, o) == o

\* @login_required (flask_login): without an authenticated user the view is not
\* called, the login message is flashed and the browser is sent to login_view
Protected(route, id, o) ==
  IF CurrentUser = <<>> THEN
    Served(users, passwords, current_user,
           [LoginRequired EXCEPT !.route = route, !.id = id], <<>>, {})
  ELSE o

\* RegisterForm.validate(): the validators of forms.py lines 59-124 with
\* auth.validate_username, validate_email and is_password_strong (ASCII letters and
\* digits; the common-password test of is_password_strong rejects only passwords
\* that have no special character and are rejected for that already)
RegisterFormValid(form, rows) ==
  LET IsUpper(c) == c \in 65..90
      IsLower(c) == c \in 97..122
      IsDigit(c) == c \in 48..57
      IsAlpha(c) == IsUpper(c) \/ IsLower(c)
      IsAlnum(c) == IsAlpha(c) \/ IsDigit(c)
      IsSpecial(c) ==
        c \in {33, 64, 35, 36, 37, 94, 38, 42, 40, 41, 95, 43, 45, 61, 91, 93, 123, 125,
               124, 59, 58, 44, 46, 60, 62, 63}
      IsLocal(c) == IsAlnum(c) \/ c \in {46, 95, 37, 43, 45}
      IsDomain(c) == IsAlnum(c) \/ c \in {46, 45}
      Has(s, T(_)) == \E i \in 1..Len(s) : T(s[i])
      All(s, from, to, T(_)) == \A i \in from..to : T(s[i])
      u == form.username
      e == form.email
      p == form.password
      ats == {i \in 1..Len(e) : e[i] = 64}
      at == CHOOSE i \in ats : TRUE
      Taken(v, field) == \E i \in 1..Len(rows) : rows[i][field] = v
  IN  /\ Len(u) >= 3 /\ Len(u) <= 30
      /\ \A i \in 1..Len(u) : IsAlnum(u[i]) \/ u[i] = 95
      /\ Has(u, IsAlnum)
      /\ IsAlpha(u[1])
      /\ ~Taken(u, "username")
      /\ e # <<>> /\ Len(e) <= 254
      /\ Cardinality(ats) = 1
      /\ at > 1 /\ All(e, 1, at - 1, IsLocal)
      /\ \E d \in (at + 2)..(Len(e) - 2) :
           /\ e[d] = 46
           /\ All(e, at + 1, d - 1, IsDomain)
           /\ All(e, d + 1, Len(e), IsAlpha)
      /\ ~Taken(e, "email")
      /\ Len(p) >= 8 /\ Len(p) <= 128
      /\ Has(p, IsUpper) /\ Has(p, IsLower) /\ Has(p, IsDigit) /\ Has(p, IsSpecial)
      /\ form.confirm_password = p

\* register, lines 78-85: the two look-ups before the user is created; the flashed
\* message of the look-up that finds a row, <<>> when neither does
RegisterTaken(form, rows) ==
  IF \E i \in 1..Len(rows) : rows[i].username = form.username
    THEN <<"Username already exists. Please choose a different one.">>
  ELSE IF \E i \in 1..Len(rows) : rows[i].email = form.email
    THEN <<"Email already registered. Please use a different email.">>
  ELSE <<>>

\* bug: columns without unique=True, the INSERT or UPDATE always succeeds
UniqueNever(rows, row) == TRUE

\* models.py lines 27-28, unique=True on username and email: whether the table rows
\* takes row (a new row or the new version of the row with the same id)
Unique(rows, row) ==
  \A i \in 1..Len(rows) :
    rows[i].id # row.id => rows[i].username # row.username /\ rows[i].email # row.email

\* register, lines 87-108: the user is created with a hashed password and a new
\* encryption key and committed; rows is the table at the time of the commit
RegisterCreate(form, rows, p, session, commitOk) ==
  The({The({IF hashed.kind = "ok" /\ commitOk /\ Unique(rows, new_user) THEN
              Served(Append(rows, new_user), p, session,
                     Respond("register", 0, 302, "", "login",
                             <<"Registration successful! Please log in.">>),
                     <<AppLog("info", "New user registered", "")>>,
                     {AppToken(16, 1), AppToken(32, 2)})
            ELSE
              Served(rows, p, session,
                     Respond("register", 0, 200, "register.html", "",
                             <<"Registration failed. Please try again.">>),
                     <<AppLog("error", "Registration error",
                              IF hashed.kind # "ok" THEN hashed.msg ELSE "commit failed")>>,
                     IF hashed.kind = "ok" THEN {AppToken(16, 1), AppToken(32, 2)}
                     ELSE IF hashed.steps # <<>> THEN {AppToken(16, 1)} ELSE {}) :
            new_user \in {[id |-> NextId(rows), username |-> form.username,
                           email |-> form.email, password_hash |-> hashed.value,
                           encryption_key |-> TokenHex(AppToken(32, 2)),
                           last_login |-> 0]}}) :
       hashed \in {hash_password(form.password, AppToken(16, 1), TRUE)}})

\* register(), POST with the form's data
register(form, rows, p, session, commitOk) ==
  IF ~RegisterFormValid(form, rows) THEN
    Served(rows, p, session, Respond("register", 0, 200, "register.html", "", <<>>),
           <<>>, {})
  ELSE IF RegisterTaken(form, rows) # <<>> THEN
    Served(rows, p, session,
           Respond("register", 0, 200, "register.html", "", RegisterTaken(form, rows)),
           <<>>, {})
  ELSE RegisterCreate(form, rows, p, session, commitOk)

\* login(), POST with the form's data (LoginForm: both fields required, the
\* username of 3 to 30 characters); the commit of last_login is not in a try block
login(form, rows, p, session, commitOk) ==
  LET Named(u) == u.username = form.username
      LoggedIn(u, id) == IF u.id = id THEN [u EXCEPT !.last_login = 1] ELSE u
  IN  IF form.username = <<>> \/ form.password = <<>>
         \/ Len(form.username) < 3 \/ Len(form.username) > 30 THEN
        Served(rows, p, session, Respond("login", 0, 200, "login.html", "", <<>>), <<>>, {})
      ELSE The({IF found # <<>>
                   /\ verify_password(form.password, found[1].password_hash, TRUE).value
                THEN IF commitOk THEN
                       Served(AsSeq([i \in 1..Len(rows) |-> LoggedIn(rows[i], found[1].id)]),
                              p, found[1].id,
                              Respond("login", 0, 302, "", "dashboard", <<"Welcome back">>),
                              <<AppLog("info", "Successful login", "")>>, {})
                     ELSE internal_error("login", rows, p, found[1].id)
                ELSE Served(rows, p, session,
                            Respond("login", 0, 200, "login.html", "",
                                    <<"Invalid username or password.">>),
                            <<AppLog("warning", "Failed login attempt", "")>>, {}) :
                found \in {SelectSeq(rows, Named)}})

\* logout(), for the logged-in user
logout(rows, p) ==
  Served(rows, p, 0,
         Respond("logout", 0, 302, "", "index",
                 <<"You have been logged out successfully.">>),
         <<AppLog("info", "User logged out", "")>>, {})

\* PasswordForm.validate() (forms.py lines 138-198): service, username and password
\* required, the url empty or starting with http:// or https:// (the pattern for
\* the host is left out)
PasswordFormValid(form) ==
  LET Blank(s) == \A i \in 1..Len(s) : s[i] \in {32, 9, 10, 13}
      Starts(s, t) == Len(s) > Len(t) /\ SubSeq(s, 1, Len(t)) = t
  IN  /\ ~Blank(form.service) /\ Len(form.service) <= 100
      /\ ~Blank(form.username) /\ Len(form.username) <= 100
      /\ ~Blank(form.password) /\ Len(form.password) <= 500
      /\ Len(form.url) <= 200
      /\ \/ Blank(form.url)
         \/ Starts(form.url, <<104, 116, 116, 112, 58, 47, 47>>)
         \/ Starts(form.url, <<104, 116, 116, 112, 115, 58, 47, 47>>)
      /\ Len(form.notes) <= 1000

\* datetime.now(timezone.utc): a time after every time stored in the table
Now(p) ==
  IF p = <<>> THEN 1
  ELSE 1 + (CHOOSE m \in {p[i].updated_at : i \in 1..Len(p)} :
              \A i \in 1..Len(p) : p[i].updated_at <= m)

\* bug: the look-up by id alone, filter_by(id=password_id)
OwnPasswordAnyUser(p, user, password_id) ==
  LET Wanted(r) == r.id = password_id
  IN  SelectSeq(p, Wanted)

\* Password.query.filter_by(id=password_id, user_id=current_user.id)
OwnPassword(p, user, password_id) ==
  LET Wanted(r) == r.id = password_id /\ r.user_id = user.id
  IN  SelectSeq(p, Wanted)

\* first_or_404() that found no row, and the handler for status 404 (lines 398-401)
NotFound(route, rows, p, user, password_id) ==
  Served(rows, p, user.id, Respond(route, password_id, 404, "404.html", "", <<>>), <<>>, {})

\* add_password(), POST with the form's data, for the logged-in user
add_password(form, rows, p, user, kdfOk, commitOk) ==
  IF ~PasswordFormValid(form) THEN
    Served(rows, p, user.id, Respond("add_password", 0, 200, "add_password.html", "", <<>>),
           <<>>, {})
  ELSE The({IF enc.kind = "ok" /\ commitOk THEN
              Served(rows,
                     Append(p, [id |-> NextId(p), user_id |-> user.id,
                                service |-> form.service, username |-> form.username,
                                encrypted_password |-> enc.value, url |-> form.url,
                                notes |-> form.notes, created_at |-> Now(p),
                                updated_at |-> Now(p)]),
                     user.id,
                     Respond("add_password", 0, 302, "", "dashboard",
                             <<"Password added successfully!">>),
                     <<AppLog("info", "Password added for service", "")>>,
                     {AppToken(SALT_SIZE, 1), AppToken(IV_SIZE, 2)})
            ELSE
              Served(rows, p, user.id,
                     Respond("add_password", 0, 200, "add_password.html", "",
                             <<"Failed to add password. Please try again.">>),
                     <<AppLog("error", "Error adding password",
                              IF enc.kind # "ok" THEN enc.msg ELSE "commit failed")>>,
                     IF Drew(enc) THEN {AppToken(SALT_SIZE, 1), AppToken(IV_SIZE, 2)} ELSE {}) :
            enc \in {encrypt_password(form.password, user.encryption_key,
                                      AppToken(SALT_SIZE, 1), AppToken(IV_SIZE, 2), kdfOk)}})

\* bug: no rollback, the attributes set before the failure are written
EditFailedNoRollback(rows, p, user, edited, enc) ==
  Served(rows, AsSeq([i \in 1..Len(p) |-> IF p[i].id = edited.id THEN edited ELSE p[i]]),
         user.id,
         Respond("edit_password", edited.id, 200, "edit_password.html", "",
                 <<"Failed to update password. Please try again.">>),
         <<AppLog("error", "Error updating password",
                  IF enc.kind # "ok" THEN enc.msg ELSE "commit failed")>>,
         IF Drew(enc) THEN {AppToken(SALT_SIZE, 1), AppToken(IV_SIZE, 2)} ELSE {})

\* edit_password, lines 253-256 and 272: the except clause; edited is the row with
\* the attributes set before the failure
EditFailed(rows, p, user, edited, enc) ==
  Served(rows, p, user.id,
         Respond("edit_password", edited.id, 200, "edit_password.html", "",
                 <<"Failed to update password. Please try again.">>),
         <<AppLog("error", "Error updating password",
                  IF enc.kind # "ok" THEN enc.msg ELSE "commit failed")>>,
         IF Drew(enc) THEN {AppToken(SALT_SIZE, 1), AppToken(IV_SIZE, 2)} ELSE {})

\* edit_password(password_id), POST with the form's data, for the logged-in user
edit_password_post(form, rows, p, user, password_id, kdfOk, commitOk) ==
  The({IF found = <<>> THEN NotFound("edit_password", rows, p, user, password_id)
       ELSE IF ~PasswordFormValid(form) THEN
         Served(rows, p, user.id,
                Respond("edit_password", password_id, 200, "edit_password.html", "", <<>>),
                <<>>, {})
       ELSE The({IF enc.kind = "ok" /\ commitOk THEN
                   Served(rows,
                          AsSeq([i \in 1..Len(p) |->
                                   IF p[i].id = password_id
                                   THEN [edited EXCEPT !.encrypted_password =
                                           IF form.password # <<>> THEN enc.value ELSE @]
                                   ELSE p[i]]),
                          user.id,
                          Respond("edit_password", password_id, 302, "", "dashboard",
                                  <<"Password updated successfully!">>),
                          <<AppLog("info", "Password updated for service", "")>>,
                          IF form.password # <<>>
                          THEN {AppToken(SALT_SIZE, 1), AppToken(IV_SIZE, 2)} ELSE {})
                 ELSE EditFailed(rows, p, user, edited, enc) :
                 edited \in {[found[1] EXCEPT !.service = form.service,
                                              !.username = form.username,
                                              !.url = form.url, !.notes = form.notes,
                                              !.updated_at = Now(p)]},
                 enc \in {IF form.password # <<>>
                          THEN encrypt_password(form.password, user.encryption_key,
                                                AppToken(SALT_SIZE, 1), AppToken(IV_SIZE, 2),
                                                kdfOk)
                          ELSE Return(<<>>, <<>>, NoLocals, <<>>)}}) :
       found \in {OwnPassword(p, user, password_id)}})

\* delete_password(password_id), POST, for the logged-in user
delete_password(rows, p, user, password_id, commitOk) ==
  LET Others(r) == r.id # password_id
  IN  IF OwnPassword(p, user, password_id) = <<>> THEN
        NotFound("delete_password", rows, p, user, password_id)
      ELSE IF commitOk THEN
        Served(rows, SelectSeq(p, Others), user.id,
               Respond("delete_password", password_id, 302, "", "dashboard",
                       <<"Password deleted successfully!">>),
               <<AppLog("info", "Password deleted for service", "")>>, {})
      ELSE
        Served(rows, p, user.id,
               Respond("delete_password", password_id, 302, "", "dashboard",
                       <<"Failed to delete password. Please try again.">>),
               <<AppLog("error", "Error deleting password", "commit failed")>>, {})

\* str.strip()
Strip(s) ==
  LET Inked == {i \in 1..Len(s) : s[i] \notin {32, 9, 10, 13}}
  IN  IF Inked = {} THEN <<>>
      ELSE SubSeq(s, CHOOSE i \in Inked : \A j \in Inked : i <= j,
                     CHOOSE i \in Inked : \A j \in Inked : j <= i)

\* settings, lines 391-396: the page with the number of the user's passwords
SettingsPage(rows, p, user, flash, log, drawn) ==
  LET Mine(r) == r.user_id = user.id
  IN  Served(rows, p, user.id,
             [Respond("settings", 0, 200, "settings.html", "", flash)
                EXCEPT !.listing = <<Len(SelectSeq(p, Mine))>>],
             log, drawn)

\* settings: a validation of the form failed, the browser is sent back to the page
SettingsRefused(rows, p, user, flash) ==
  Served(rows, p, user.id, Respond("settings", 0, 302, "", "settings", flash), <<>>, {})

\* bug: the new password also gives the user a new encryption key
PasswordChangedNewKey(rows, user, hash) ==
  AsSeq([i \in 1..Len(rows) |->
           IF rows[i].id = user.id
           THEN [rows[i] EXCEPT !.password_hash = hash,
                                !.encryption_key = TokenHex(AppToken(32, 2))]
           ELSE rows[i]])

\* settings, line 323: the table after current_user.password_hash is set
PasswordChanged(rows, user, hash) ==
  AsSeq([i \in 1..Len(rows) |->
           IF rows[i].id = user.id THEN [rows[i] EXCEPT !.password_hash = hash]
           ELSE rows[i]])

\* settings, action change_password (lines 302-330)
change_password(form, rows, p, user, commitOk) ==
  IF ~verify_password(form.current_password, user.password_hash, TRUE).value THEN
    SettingsRefused(rows, p, user, <<"Current password is incorrect.">>)
  ELSE IF Len(form.new_password) < 8 THEN
    SettingsRefused(rows, p, user, <<"New password must be at least 8 characters long.">>)
  ELSE IF form.new_password # form.confirm_password THEN
    SettingsRefused(rows, p, user, <<"New passwords do not match.">>)
  ELSE The({IF hashed.kind = "ok" /\ commitOk THEN
              SettingsPage(PasswordChanged(rows, user, hashed.value), p, user,
                           <<"Password changed successfully.">>,
                           <<AppLog("info", "Password changed", "")>>, {AppToken(16, 1)})
            ELSE
              SettingsPage(rows, p, user, <<"An error occurred while changing password.">>,
                           <<AppLog("error", "Password change failed",
                                    IF hashed.kind # "ok" THEN hashed.msg
                                    ELSE "commit failed")>>,
                           IF hashed.steps # <<>> THEN {AppToken(16, 1)} ELSE {}) :
            hashed \in {hash_password(form.new_password, AppToken(16, 1), TRUE)}})

\* settings, lines 344-348: the look-up of another user with the username
UpdateProfileTaken(username, rows, user) ==
  \E i \in 1..Len(rows) : rows[i].username = username /\ rows[i].id # user.id

\* settings, lines 350-360: the username is set and committed; rows is the table at
\* the time of the commit
UpdateProfileCommit(username, rows, p, user, commitOk) ==
  IF commitOk /\ Unique(rows, [user EXCEPT !.username = username]) THEN
    SettingsPage(AsSeq([i \in 1..Len(rows) |->
                          IF rows[i].id = user.id
                          THEN [rows[i] EXCEPT !.username = username] ELSE rows[i]]),
                 p, user, <<"Profile updated successfully.">>,
                 <<AppLog("info", "Username changed", "")>>, {})
  ELSE
    SettingsPage(rows, p, user, <<"An error occurred while updating profile.">>,
                 <<AppLog("error", "Profile update failed", "commit failed")>>, {})

\* settings, lines 332-342: the checks of update_profile before the look-up; the
\* flashed message, <<>> when the username passes
UpdateProfileInvalid(username) ==
  IF username = <<>> THEN <<"Username cannot be empty.">>
  ELSE IF Len(username) < 3 THEN <<"Username must be at least 3 characters long.">>
  ELSE <<>>

\* settings, action update_profile (lines 332-360)
update_profile(form, rows, p, user, commitOk) ==
  IF UpdateProfileInvalid(Strip(form.username)) # <<>> THEN
    SettingsRefused(rows, p, user, UpdateProfileInvalid(Strip(form.username)))
  ELSE IF UpdateProfileTaken(Strip(form.username), rows, user) THEN
    SettingsRefused(rows, p, user, <<"Username is already taken.">>)
  ELSE UpdateProfileCommit(Strip(form.username), rows, p, user, commitOk)

\* bug: logout_user() is not called
AccountDeletedKeepsSession(rows, p, user) ==
  LET Others(u) == u.id # user.id
      NotMine(r) == r.user_id # user.id
  IN  Served(SelectSeq(rows, Others), SelectSeq(p, NotMine), user.id,
             Respond("settings", 0, 302, "", "register",
                     <<"Your account has been permanently deleted.">>),
             <<AppLog("info", "Account deleted", "")>>, {})

\* settings, lines 370-383: the passwords and the user are deleted and committed,
\* the user is logged out
AccountDeleted(rows, p, user) ==
  LET Others(u) == u.id # user.id
      NotMine(r) == r.user_id # user.id
  IN  Served(SelectSeq(rows, Others), SelectSeq(p, NotMine), 0,
             Respond("settings", 0, 302, "", "register",
                     <<"Your account has been permanently deleted.">>),
             <<AppLog("info", "Account deleted", "")>>, {})

\* settings, action delete_account (lines 362-389)
delete_account(form, rows, p, user, commitOk) ==
  IF ~verify_password(form.delete_confirm_password, user.password_hash, TRUE).value THEN
    SettingsRefused(rows, p, user, <<"Password is incorrect. Account deletion cancelled.">>)
  ELSE IF commitOk THEN AccountDeleted(rows, p, user)
  ELSE SettingsPage(rows, p, user, <<"An error occurred while deleting account.">>,
                    <<AppLog("error", "Account deletion failed", "commit failed")>>, {})

\* settings(): GET, or POST with the action and the fields of the form
settings(form, rows, p, user, commitOk) ==
  CASE form.action = "change_password" -> change_password(form, rows, p, user, commitOk)
    [] form.action = "update_profile" -> update_profile(form, rows, p, user, commitOk)
    [] form.action = "delete_account" -> delete_account(form, rows, p, user, commitOk)
    [] OTHER -> SettingsPage(rows, p, user, <<>>, <<>>, {})

\* flask_login's anonymous user, for a request without a session
AnonymousUser ==
  [id |-> 0, username |-> <<>>, email |-> <<>>, password_hash |-> <<>>,
   encryption_key |-> <<>>, last_login |-> 0]

\* current_user as the views see it
SessionUser == IF CurrentUser = <<>> THEN AnonymousUser ELSE CurrentUser[1]

\* a request: the route, the id in the URL, the form's data and whether the key
\* derivation and the commit of this request succeed
Request(op, id, form, kdfOk, commitOk) ==
  [op |-> op, id |-> id, form |-> form, kdfOk |-> kdfOk, commitOk |-> commitOk]

\* "alice", "bob", "al", two blanks; "a@x.io", "b@x.io"
NameAlice == <<97, 108, 105, 99, 101>>
NameBob == <<98, 111, 98>>
MailA == <<97, 64, 120, 46, 105, 111>>
MailB == <<98, 64, 120, 46, 105, 111>>
\* "Passw0rd!", "Passw0rd?", "password"
PwA == <<80, 97, 115, 115, 119, 48, 114, 100, 33>>
PwB == <<80, 97, 115, 115, 119, 48, 114, 100, 63>>
PwWeak == <<112, 97, 115, 115, 119, 111, 114, 100>>

RegisterForms ==
  {[username |-> NameAlice, email |-> MailA, password |-> PwA, confirm_password |-> PwA],
   [username |-> NameBob, email |-> MailB, password |-> PwB, confirm_password |-> PwB],
   [username |-> NameAlice, email |-> MailB, password |-> PwA, confirm_password |-> PwA],
   [username |-> NameBob, email |-> MailA, password |-> PwWeak, confirm_password |-> PwWeak]}

LoginForms ==
  {[username |-> NameAlice, password |-> PwA], [username |-> NameAlice, password |-> PwB],
   [username |-> NameBob, password |-> PwB]}

\* "mail" with password "s3"; "bank" with password "pé", a URL and a note; a form
\* without a service
PasswordForms ==
  {[service |-> <<109, 97, 105, 108>>, username |-> <<109, 101>>, password |-> <<115, 51>>,
    url |-> <<>>, notes |-> <<>>],
   [service |-> <<98, 97, 110, 107>>, username |-> <<109, 101>>, password |-> <<112, 233>>,
    url |-> <<104, 116, 116, 112, 115, 58, 47, 47, 98, 46, 105, 111>>, notes |-> <<120>>],
   [service |-> <<>>, username |-> <<109, 101>>, password |-> <<115, 51>>,
    url |-> <<>>, notes |-> <<>>]}

NoSettings ==
  [action |-> "", current_password |-> <<>>, new_password |-> <<>>,
   confirm_password |-> <<>>, username |-> <<>>, delete_confirm_password |-> <<>>]

SettingsForms ==
  {NoSettings}
  \cup {[NoSettings EXCEPT !.action = "change_password", !.current_password = PwA,
                           !.new_password = f[1], !.confirm_password = f[2]] :
        f \in {<<PwB, PwB>>, <<PwB, PwA>>}}
  \cup {[NoSettings EXCEPT !.action = "update_profile", !.username = n] :
        n \in {NameBob, <<32, 97, 108>>}}
  \cup {[NoSettings EXCEPT !.action = "delete_account", !.delete_confirm_password = c] :
        c \in {PwA, PwB}}

\* how a request that encrypts can go: the key derivation fails, the commit
\* fails, or neither
Outcomes == {o \in KdfOutcomes \X BOOLEAN : o[1] \/ o[2]}

\* the random values a request may draw are left
CanDraw(n) == Cardinality(rngOut) + n <= MaxDraws

\* POST /register
PostRegister ==
  /\ CanDraw(2)
  /\ \E form \in RegisterForms, commitOk \in BOOLEAN :
       \E o \in {register(form, users, passwords, current_user, commitOk)} :
         Serve(Request("register", 0, form, TRUE, commitOk), o)

\* POST /login
PostLogin ==
  \E form \in LoginForms, commitOk \in BOOLEAN :
    \E o \in {login(form, users, passwords, current_user, commitOk)} :
      Serve(Request("login", 0, form, TRUE, commitOk), o)

\* GET /logout
GetLogout ==
  \E o \in {Protected("logout", 0, logout(users, passwords))} :
    Serve(Request("logout", 0, <<>>, TRUE, TRUE), o)

\* GET /dashboard
GetDashboard ==
  \E o \in {Protected("dashboard", 0,
                       The({Served(users, passwords, current_user, r[1], r[2], {}) :
                            r \in {dashboard(passwords, SessionUser)}}))} :
    Serve(Request("dashboard", 0, <<>>, TRUE, TRUE), o)

\* GET /edit_password/<password_id>
GetEditPassword ==
  \E password_id \in 1..MaxRows :
    \E o \in {Protected("edit_password", password_id,
                         The({Served(users, passwords, current_user, r[1], r[2], {}) :
                              r \in {edit_password_get(passwords, SessionUser,
                                                       password_id)}}))} :
      Serve(Request("edit_password_get", password_id, <<>>, TRUE, TRUE), o)

\* POST /add_password
PostAddPassword ==
  /\ CanDraw(2)
  /\ Len(passwords) < MaxRows
  /\ \E form \in PasswordForms, how \in Outcomes :
       \E o \in {Protected("add_password", 0,
                            add_password(form, users, passwords, SessionUser, how[1],
                                         how[2]))} :
         Serve(Request("add_password", 0, form, how[1], how[2]), o)

\* POST /edit_password/<password_id>
PostEditPassword ==
  /\ CanDraw(2)
  /\ \E password_id \in 1..MaxRows, form \in PasswordForms, how \in Outcomes :
       \E o \in {Protected("edit_password", password_id,
                            edit_password_post(form, users, passwords, SessionUser,
                                               password_id, how[1], how[2]))} :
         Serve(Request("edit_password", password_id, form, how[1], how[2]), o)

\* POST /delete_password/<password_id>
PostDeletePassword ==
  \E password_id \in 1..MaxRows, commitOk \in BOOLEAN :
    \E o \in {Protected("delete_password", password_id,
                         delete_password(users, passwords, SessionUser, password_id,
                                         commitOk))} :
      Serve(Request("delete_password", password_id, <<>>, TRUE, commitOk), o)

\* GET /settings, or POST /settings with one of its actions
Settings ==
  /\ CanDraw(1)
  /\ \E form \in SettingsForms, commitOk \in BOOLEAN :
       \E o \in {Protected("settings", 0,
                            settings(form, users, passwords, SessionUser, commitOk))} :
         Serve(Request("settings", 0, form, TRUE, commitOk), o)

\* alice and bob as register() stored them and login() updated them
AppUsers ==
  <<[id |-> 1, username |-> NameAlice, email |-> MailA,
     password_hash |-> hash_password(PwA, TokenBytes(16, 1), TRUE).value,
     encryption_key |-> TokenHex(TokenBytes(32, 2)), last_login |-> 1],
    [id |-> 2, username |-> NameBob, email |-> MailB,
     password_hash |-> hash_password(PwB, TokenBytes(16, 3), TRUE).value,
     encryption_key |-> TokenHex(TokenBytes(32, 4)), last_login |-> 1]>>

\* the password "s3" for "mail" as add_password() stored it for alice
AppPasswords ==
  <<[id |-> 1, user_id |-> 1, service |-> <<109, 97, 105, 108>>,
     username |-> <<109, 101>>,
     encrypted_password |->
       encrypt_password(<<115, 51>>, TokenHex(TokenBytes(32, 2)), TokenBytes(SALT_SIZE, 5),
                        TokenBytes(IV_SIZE, 6), TRUE).value,
     url |-> <<>>, notes |-> <<>>, created_at |-> 1, updated_at |-> 1]>>

\* alice and bob have registered and logged in, alice has stored a password; the
\* key derivation and the commit of a later request can fail
InitApp ==
  /\ rngOut = {TokenBytes(16, 1), TokenBytes(32, 2), TokenBytes(16, 3), TokenBytes(32, 4),
               TokenBytes(SALT_SIZE, 5), TokenBytes(IV_SIZE, 6)}
  /\ vault = {}
  /\ last = Idle
  /\ faulty = TRUE
  /\ frames = [t \in Threads |-> IdleFrame]
  /\ users = AppUsers
  /\ passwords = AppPasswords
  /\ current_user = 0
  /\ response = NoResponse
  /\ applog = <<>>

NextApp ==
  \/ PostRegister
  \/ PostLogin
  \/ GetLogout
  \/ GetDashboard
  \/ GetEditPassword
  \/ PostAddPassword
  \/ PostEditPassword
  \/ PostDeletePassword
  \/ Settings

SpecApp == InitApp /\ [][NextApp]_vars

(***************************************************************************)
(* register and update_profile served by two workers at once.  A request   *)
(* is served in two steps: the validation with its look-ups in the table,  *)
(* and the commit, which the table takes or refuses by its unique columns. *)
(* frames[t] holds the request worker t is serving between the two steps.  *)
(***************************************************************************)
RaceIdle == [pc |-> "idle", op |-> "none", form |-> <<>>, user |-> 0]

\* the usernames update_profile is asked for: "bob", "alice", " al"
ProfileNames == {NameBob, NameAlice, <<32, 97, 108>>}

\* worker t answers a request: the response, the log and the table are those of o
Answer(t, req, o) ==
  /\ last' = req
  /\ users' = o.users
  /\ response' = o.response
  /\ applog' = o.log
  /\ rngOut' = rngOut \cup o.drawn
  /\ frames' = [frames EXCEPT ![t] = RaceIdle]
  /\ UNCHANGED <<vault, faulty, passwords, current_user>>

\* worker t has validated a request and goes on to the commit
Proceed(t, op, form, user) ==
  /\ last' = Request(op, user, form, TRUE, TRUE)
  /\ frames' = [frames EXCEPT ![t] = [pc |-> "checked", op |-> op, form |-> form,
                                      user |-> user]]
  /\ UNCHANGED <<rngOut, vault, faulty, users, passwords, current_user, response, applog>>

\* POST /register, validate_on_submit() and the look-ups of lines 78-85
RegisterCheck(t) ==
  /\ frames[t].pc = "idle"
  /\ CanDraw(2)
  /\ \E form \in RegisterForms :
       IF RegisterFormValid(form, users) /\ RegisterTaken(form, users) = <<>>
       THEN Proceed(t, "register_check", form, 0)
       ELSE \E o \in {register(form, users, passwords, 0, TRUE)} :
              Answer(t, Request("register", 0, form, TRUE, TRUE), o)

\* POST /register, lines 87-108, with the table as it is now
RegisterCommit(t) ==
  /\ frames[t].pc = "checked"
  /\ frames[t].op = "register_check"
  /\ \E commitOk \in BOOLEAN :
       \E o \in {RegisterCreate(frames[t].form, users, passwords, 0, commitOk)} :
         Answer(t, Request("register", 0, frames[t].form, TRUE, commitOk), o)

\* POST /settings with action update_profile by a logged-in user, lines 332-348
UpdateProfileCheck(t) ==
  /\ frames[t].pc = "idle"
  /\ \E i \in 1..Len(users), name \in ProfileNames :
       \E form \in {[NoSettings EXCEPT !.action = "update_profile", !.username = name]} :
         IF /\ UpdateProfileInvalid(Strip(name)) = <<>>
            /\ ~UpdateProfileTaken(Strip(name), users, users[i])
         THEN Proceed(t, "update_profile_check", form, users[i].id)
         ELSE \E o \in {update_profile(form, users, passwords, users[i], TRUE)} :
                Answer(t, Request("update_profile", users[i].id, form, TRUE, TRUE), o)

\* POST /settings with action update_profile, lines 350-360, with the table as it
\* is now
UpdateProfileWrite(t) ==
  /\ frames[t].pc = "checked"
  /\ frames[t].op = "update_profile_check"
  /\ \E commitOk \in BOOLEAN, i \in 1..Len(users) :
       /\ users[i].id = frames[t].user
       /\ \E o \in {UpdateProfileCommit(Strip(frames[t].form.username), users, passwords,
                                        users[i], commitOk)} :
            Answer(t, Request("update_profile", frames[t].user, frames[t].form, TRUE,
                              commitOk), o)

InitRace ==
  /\ rngOut = {}
  /\ vault = {}
  /\ last = Idle
  /\ faulty = FALSE
  /\ frames = [t \in Threads |-> RaceIdle]
  /\ users = <<>>
  /\ passwords = <<>>
  /\ current_user = 0
  /\ response = NoResponse
  /\ applog = <<>>

NextRace ==
  \E t \in Threads :
    \/ RegisterCheck(t)
    \/ RegisterCommit(t)
    \/ UpdateProfileCheck(t)
    \/ UpdateProfileWrite(t)

SpecRace == InitRace /\ [][NextRace]_vars

(***************************************************************************)
(* A caller of auth.py and of secure_compare.  vault holds the hashes      *)
(* hash_password returned, each with the password it was made from, the    *)
(* random bytes of its salt and the bcrypt that made it.                   *)
(***************************************************************************)
\* "passw0rd", "passw0re", "p4sswörd", "short", and two passwords of 73 characters:
\* 72 times "a", then "b" or "c"
AuthPasswords ==
  {<<112, 97, 115, 115, 119, 48, 114, 100>>, <<112, 97, 115, 115, 119, 48, 114, 101>>,
   <<112, 52, 115, 115, 119, 246, 114, 100>>, <<115, 104, 111, 114, 116>>,
   AsSeq([i \in 1..BcryptLimit |-> 97]) \o <<98>>,
   AsSeq([i \in 1..BcryptLimit |-> 97]) \o <<99>>}

\* texts that are no bcrypt hash: "$2", "!!?", a salt with nothing after it, and a
\* hash of an unknown kind
BadHashes ==
  {<<36, 50>>, NotB64, Gensalt(TokenBytes(16, 0)),
   <<36, 57, 122, 36>> \o SubSeq(B64Encode(TokenBytes(42, 0)), 1, 56)}

\* the caller calls hash_password(p) and keeps the hash; it keeps two hashes
HashCall ==
  /\ last.op = "none"
  /\ Cardinality(vault) < 2
  /\ \E p \in AuthPasswords \cup {Empty}, raw \in Fresh(16), strict \in BOOLEAN :
       \E out \in {hash_password(p, raw, strict)} :
         /\ last' = [Idle EXCEPT !.op = "hash", !.pt = p, !.salt = raw, !.out = out]
         /\ rngOut' = IF out.steps # <<>> THEN rngOut \cup {raw} ELSE rngOut
         /\ vault' = IF out.kind = "ok"
                     THEN vault \cup {[env |-> out.value, pt |-> p, salt |-> raw,
                                       how |-> "hash", strict |-> strict]}
                     ELSE vault
  /\ UNCHANGED <<faulty, frames, web>>

\* the caller calls verify_password(q, h) on a hash it keeps, with the bcrypt that
\* made the hash, or on other text
VerifyPasswordCall ==
  /\ last.op = "none"
  /\ \E q \in AuthPasswords \cup {Empty} :
       \/ \E e \in vault :
            last' = [Idle EXCEPT !.op = "verify_password", !.pt = q, !.env = e.env,
                                 !.out = verify_password(q, e.env, e.strict)]
       \/ \E h \in BadHashes \cup {Empty}, strict \in BOOLEAN :
            last' = [Idle EXCEPT !.op = "verify_password", !.pt = q, !.env = h,
                                 !.out = verify_password(q, h, strict)]
  /\ UNCHANGED <<rngOut, vault, faulty, frames, web>>

\* "", "a", "b", "ab", "abc", "abd", "xbc", "ab€", "aéc", "password123",
\* "different123"
CompareStrings ==
  {Empty, <<97>>, <<98>>, <<97, 98>>, <<97, 98, 99>>, <<97, 98, 100>>, <<120, 98, 99>>,
   <<97, 98, 8364>>, <<97, 233, 99>>,
   <<112, 97, 115, 115, 119, 111, 114, 100, 49, 50, 51>>,
   <<100, 105, 102, 102, 101, 114, 101, 110, 116, 49, 50, 51>>}

\* the caller calls secure_compare(a, b)
CompareCall ==
  /\ last.op = "none"
  /\ \E a \in CompareStrings, b \in CompareStrings :
       last' = [Idle EXCEPT !.op = "compare", !.pt = a, !.env = b,
                            !.out = secure_compare(a, b)]
  /\ UNCHANGED <<rngOut, vault, faulty, frames, web>>

NextAuth == HashCall \/ VerifyPasswordCall \/ CompareCall \/ Resume

SpecAuth == Init /\ [][NextAuth]_vars

(***************************************************************************)
(* Properties                                                              *)
(***************************************************************************)
HasStep(out, step) == \E i \in 1..Len(out.steps) : out.steps[i] = step

\* the last call decrypted the held envelope e as it is
DecryptedHeld(e) == last.op = "decrypt" /\ last.tamper = NoTamper /\ last.env = e.env

\* C1: decrypting an envelope that encrypt_password(P, K) returned, with the same
\* master key K, returns exactly P, whichever salt and nonce were drawn.
C1_RoundTrip ==
  \A e \in vault :
    (DecryptedHeld(e) /\ e.how = "encrypt" /\ last.key = e.key)
      => (last.out.kind = "ok" /\ last.out.value = e.pt)

C1_Witness ==
  \E e \in vault :
    /\ DecryptedHeld(e) /\ e.how = "encrypt" /\ last.key = e.key
    /\ e.pt = <<112, 233>>
    /\ last.out.value = <<112, 233>>

\* C2: after one byte of the ciphertext or tag segment of an envelope has been
\* changed, decrypt_password with the envelope's key fails with the authentication
\* error and returns nothing; and no decrypt_password call returns a value when the
\* tag it sliced does not verify.
C2_TamperDetected ==
  /\ (last.op = "decrypt" /\ last.tamper.segment \in {"ciphertext", "tag"})
       => /\ last.out.kind = "RuntimeError"
          /\ last.out.msg = "Password decryption failed"
          /\ last.out.causes = <<Exc("InvalidTag", "", <<>>)>>
          /\ last.out.value = <<>>
  /\ (last.op = "decrypt" /\ last.out.locals.key # <<>>
      /\ GMAC(last.out.locals.key, last.out.locals.iv, last.out.locals.ciphertext)
           # last.out.locals.tag)
       => (last.out.kind # "ok" /\ last.out.value = <<>>)

C2_Witness ==
  /\ last.op = "decrypt"
  /\ last.tamper.segment = "ciphertext"
  /\ last.tamper.pos = SALT_SIZE + IV_SIZE + TAG_SIZE + 3
  /\ last.out.kind = "RuntimeError"

\* C3: decrypting an envelope made with master key K1 with another non-empty master
\* key K2 fails with an error and does not return the plaintext.
C3_WrongKey ==
  \A e \in vault :
    (DecryptedHeld(e) /\ e.how = "encrypt" /\ last.key \in Keys /\ last.key # e.key)
      => (last.out.kind \in {"RuntimeError", "ValueError"} /\ last.out.value # e.pt)

C3_Witness ==
  \E e \in vault :
    /\ DecryptedHeld(e) /\ e.how = "encrypt" /\ last.key \in Keys /\ last.key # e.key
    /\ last.out.kind = "RuntimeError"
    /\ HasStep(last.out, "cipher")

\* the last call was decrypt_password on text that decodes to fewer than
\* SALT_SIZE + IV_SIZE + TAG_SIZE bytes
DecodesShort ==
  /\ last.op = "decrypt"
  /\ The({dec[1] /\ Len(dec[2]) < SALT_SIZE + IV_SIZE + TAG_SIZE :
          dec \in {B64Decode(UTF8Encode(last.env))}})

\* C4: with a non-empty master key, decrypt_password on text whose base64-decoded
\* length is below 64 bytes fails with ValueError, and fails before any key derivation
\* or cipher step.
C4_Malformed ==
  (DecodesShort /\ last.key # Empty)
    => /\ last.out.kind = "ValueError"
       /\ ~HasStep(last.out, "derive")
       /\ ~HasStep(last.out, "cipher")

C4_Witness ==
  /\ DecodesShort /\ last.key # Empty
  /\ last.env = Raw63
  /\ last.out.kind = "ValueError"
  /\ last.out.steps = <<"b64decode">>

\* C5: encrypt_password with an empty plaintext or an empty master key fails with
\* ValueError, draws no salt or nonce and returns no envelope.
C5_EncryptRejectsEmpty ==
  (last.op = "encrypt" /\ (last.pt = Empty \/ last.key = Empty))
    => /\ last.out.kind = "ValueError"
       /\ ~HasStep(last.out, "token_bytes")
       /\ last.out.value = <<>>
       /\ \A e \in vault : e.pt # Empty /\ e.key # Empty

C5_Witness ==
  /\ last.op = "encrypt"
  /\ last.pt # Empty
  /\ last.key = Empty
  /\ last.out.kind = "ValueError"

\* r is the envelope change_password_encryption made from the envelope o, which
\* encrypt_password made with another key
RotatedFrom(r, o) ==
  r.how = "rotate" /\ o.how = "encrypt" /\ o.env = r.src /\ o.key # r.key

\* C6: the envelope R that rotation makes from encrypt_password(P, KA), KA and KB
\* decrypts to P with KB and fails to decrypt with KA.
C6_Rotation ==
  \A r \in vault, o \in vault :
    (RotatedFrom(r, o) /\ DecryptedHeld(r))
      => /\ last.key = r.key => (last.out.kind = "ok" /\ last.out.value = o.pt)
         /\ last.key = o.key => last.out.kind \in {"RuntimeError", "ValueError"}

C6_Witness ==
  \E r \in vault, o \in vault :
    /\ RotatedFrom(r, o) /\ DecryptedHeld(r)
    /\ last.key = r.key
    /\ last.out.value = o.pt

\* the error the failing step of the last rotation raised by itself: that of the
\* decrypt step, or else that of the encrypt step
RotateStepError ==
  The({IF dec.kind # "ok" THEN ExcOf(dec)
       ELSE ExcOf(The({encrypt_password(plaintext, last.newKey, TokenBytes(SALT_SIZE, 1),
                                        TokenBytes(IV_SIZE, 1), TRUE) :
                       plaintext \in {dec.value}})) :
       dec \in {decrypt_password(last.env, last.key, TRUE)}})

\* C7 as stated: a failing rotation gives its caller the very error that the
\* failing decrypt or encrypt step raised.
C7_Transparent ==
  (last.op = "rotate" /\ last.out.kind # "ok") => ExcOf(last.out) = RotateStepError

\* C7 as amended: a failing rotation raises RuntimeError("Password re-encryption
\* failed") whose cause is the error the failing step raised; the decrypt step's
\* error takes precedence, since the encrypt step is not run after it.
C7_Wrapped ==
  (last.op = "rotate" /\ last.out.kind # "ok")
    => /\ ExcOf(last.out) = Exc("RuntimeError", "Password re-encryption failed", <<>>)
       /\ last.out.causes[1] = RotateStepError
       /\ last.out.value = <<>>
       /\ (decrypt_password(last.env, last.key, TRUE).kind # "ok"
             => ~HasStep(last.out, "token_bytes"))

C7_Witness ==
  /\ last.op = "rotate"
  /\ last.newKey = Empty
  /\ last.out.kind = "RuntimeError"
  /\ last.out.causes[1] = Exc("ValueError", "Master key cannot be empty", <<>>)
  /\ HasStep(last.out, "cipher")

\* C8: verify_encryption_integrity never raises; it returns True exactly when
\* decrypt_password on the same arguments returns, False exactly when it fails, and
\* its result is the boolean alone.
C8_VerifyIsBoolean ==
  last.op = "verify"
    => /\ last.out.kind = "ok"
       /\ last.out.msg = "" /\ last.out.data = <<>> /\ last.out.causes = <<>>
       /\ last.out.value \in BOOLEAN
       /\ last.out.value = (decrypt_password(last.env, last.key, TRUE).kind = "ok")

C8_Witness ==
  /\ last.op = "verify"
  /\ last.env \in Held
  /\ last.key \in Keys
  /\ last.out.value = FALSE

\* the last call returned a new envelope
Sealed == last.op \in {"encrypt", "rotate"} /\ last.out.kind = "ok"

\* C9: every encrypt_password call that returns (made directly or by a rotation)
\* returns an envelope different from all returned before, sealed under a (derived
\* key, nonce) pair, a salt and a nonce no earlier seal used; and every envelope
\* decrypts to its own plaintext under its own key.
C9_FreshPerCall ==
  /\ [][Sealed' =>
          /\ last'.out.value \notin Held
          /\ \A e \in vault :
               /\ <<e.parts.key, e.parts.iv>> # <<last'.out.locals.key, last'.out.locals.iv>>
               /\ e.parts.salt # last'.out.locals.salt
               /\ e.parts.iv # last'.out.locals.iv]_vars
  /\ [](\A e \in vault :
          (DecryptedHeld(e) /\ last.key = e.key)
            => (last.out.kind = "ok" /\ last.out.value = e.pt))

C9_Witness ==
  \E a \in vault, b \in vault :
    /\ a.env # b.env
    /\ a.pt = b.pt /\ a.key = b.key
    /\ a.how = "encrypt" /\ b.how = "encrypt"
    /\ DecryptedHeld(b) /\ last.key = b.key /\ last.out.kind = "ok"

\* C10: an envelope decodes to salt[32] + nonce[16] + tag[16] + ciphertext[rest] as
\* packed, and the decoder's slices of it are exactly the salt, nonce, tag and
\* ciphertext that the encoder packed.
C10_CodecAgreement ==
  \A e \in vault :
    (DecryptedHeld(e) /\ last.key # Empty)
      => /\ B64Decode(UTF8Encode(e.env))
              = <<TRUE, e.parts.salt \o e.parts.iv \o e.parts.tag \o e.parts.ciphertext>>
         /\ Len(e.parts.salt) = 32 /\ Len(e.parts.iv) = 16 /\ Len(e.parts.tag) = 16
         /\ e.parts.ciphertext = CTR(e.parts.key, e.parts.iv, UTF8Encode(e.pt))
         /\ last.out.locals.salt = e.parts.salt
         /\ last.out.locals.iv = e.parts.iv
         /\ last.out.locals.tag = e.parts.tag
         /\ last.out.locals.ciphertext = e.parts.ciphertext

C10_Witness ==
  \E e \in vault :
    /\ DecryptedHeld(e) /\ last.key # Empty
    /\ Len(e.parts.ciphertext) = 3
    /\ last.out.locals.ciphertext = e.parts.ciphertext

\* the number of UTF-8 bytes of the plaintext of the held envelope e
PlainLen(e) == Len(UTF8Encode(e.pt))

\* C11: for a plaintext of n >= 1 UTF-8 bytes the ciphertext has n bytes, the decoded
\* envelope has 32+16+16+n bytes, so that decrypt_password never finds it shorter than
\* the header, and the base64 string has at least ceil((64+n)/3)*4 characters: at
\* least 100 for the 9 bytes of "P@ssw0rd!".
C11_EnvelopeSize ==
  \A e \in vault :
    /\ PlainLen(e) >= 1
    /\ Len(e.parts.ciphertext) = PlainLen(e)
    /\ B64Decode(UTF8Encode(e.env))[1]
    /\ Len(B64Decode(UTF8Encode(e.env))[2]) = 32 + 16 + 16 + PlainLen(e)
    /\ Len(e.env) >= ((32 + 16 + 16 + PlainLen(e) + 2) \div 3) * 4
    /\ (Len(e.pt) = 9 /\ PlainLen(e) = 9) => Len(e.env) >= 100
    /\ DecryptedHeld(e) =>
         /\ HasStep(last.out, "derive")
         /\ \A i \in 1..Len(last.out.causes) :
              last.out.causes[i].msg # "Invalid encrypted data format"

C11_Witness ==
  \E e \in vault :
    /\ Len(e.pt) = 9 /\ PlainLen(e) = 9
    /\ Len(e.parts.ciphertext) = 9
    /\ Len(e.env) = 100
    /\ DecryptedHeld(e) /\ last.out.value = e.pt

\* which of the four failures the failed encrypt_password or decrypt_password call
\* had, read off the exception its handler caught (none: raised by the argument checks)
FailureKind(out) ==
  IF out.causes = <<>> THEN "InvalidInput"
  ELSE IF out.causes[1] = Exc("RuntimeError", "Key derivation failed", <<>>)
    THEN "KeyDerivationFailed"
  ELSE IF out.causes[1].kind = "InvalidTag" THEN "AuthenticationFailed"
  ELSE "MalformedEnvelope"

\* the failures of decrypt_password on what the caller holds and on malformed text
OtherFailures ==
  {o \in {decrypt_password(E, K, kdfOk) :
            E \in Held \cup {Raw10, Empty}, K \in Keys \cup {Empty}, kdfOk \in BOOLEAN} :
     o.kind # "ok"}

\* the last call was an encrypt_password or decrypt_password call that failed
CoreCallFailed == last.op \in {"encrypt", "decrypt"} /\ last.out.kind # "ok"

\* C12 as stated: no failure of another kind is reported with the exception type and
\* message of the failure the last call had.
C12_Distinct ==
  CoreCallFailed =>
    \A o \in OtherFailures :
      FailureKind(o) # FailureKind(last.out) => ExcOf(o) # ExcOf(last.out)

\* C12 as amended: InvalidInput is a ValueError naming the empty argument,
\* MalformedEnvelope is ValueError("Invalid encrypted password data"), and both
\* KeyDerivationFailed and AuthenticationFailed are RuntimeError("Password decryption
\* failed") from decrypt_password (KeyDerivationFailed from encrypt_password is
\* RuntimeError("Password encryption failed")); these two differ in the chained cause
\* and in the log record only.
C12_Signals ==
  CoreCallFailed =>
    /\ FailureKind(last.out) = "InvalidInput" =>
         /\ last.out.kind = "ValueError"
         /\ last.out.msg \in {"Password cannot be empty", "Master key cannot be empty",
                              "Encrypted password cannot be empty"}
    /\ FailureKind(last.out) = "MalformedEnvelope" =>
         ExcOf(last.out) = Exc("ValueError", "Invalid encrypted password data", <<>>)
    /\ FailureKind(last.out) \in {"KeyDerivationFailed", "AuthenticationFailed"} =>
         /\ ExcOf(last.out) =
              Exc("RuntimeError",
                  IF last.op = "encrypt" THEN "Password encryption failed"
                  ELSE "Password decryption failed", <<>>)
         /\ last.out.logs[Len(last.out.logs)].err =
              (IF FailureKind(last.out) = "KeyDerivationFailed"
               THEN "Key derivation failed" ELSE "")

C12_Witness ==
  \E e \in vault :
    /\ DecryptedHeld(e) /\ last.key = e.key
    /\ FailureKind(last.out) = "KeyDerivationFailed"
    /\ ExcOf(last.out) = Exc("RuntimeError", "Password decryption failed", <<>>)

\* C13: derive_key_from_master returns 32 bytes and, for a master key and salt that
\* an earlier encryption used, the key that encryption used, whatever ran in between;
\* decrypt_password with the envelope's master key works with that same key.
C13_SameKey ==
  /\ (last.op = "derive" /\ last.out.kind = "ok") =>
       /\ Len(last.out.value) = 32
       /\ \A e \in vault :
            (e.key = last.key /\ e.parts.salt = last.salt) => last.out.value = e.parts.key
  /\ \A e \in vault :
       /\ Len(e.parts.key) = 32
       /\ (DecryptedHeld(e) /\ last.key = e.key /\ HasStep(last.out, "cipher")) =>
            last.out.locals.key = e.parts.key

C13_Witness ==
  \E e \in vault :
    /\ e.pt = <<112, 233>>
    /\ last.op = "derive" /\ last.out.kind = "ok"
    /\ e.key = last.key /\ e.parts.salt = last.salt
    /\ last.out.value = e.parts.key

\* C14: derive_key_from_master and decrypt_password reject an empty master key, and
\* decrypt_password an empty envelope, with ValueError, before base64 decoding, key
\* derivation or any cipher step.
C14_RejectsEmpty ==
  /\ (last.op = "derive" /\ last.key = Empty) =>
       /\ ExcOf(last.out) = Exc("ValueError", "Master key cannot be empty", <<>>)
       /\ last.out.steps = <<>> /\ last.out.causes = <<>>
  /\ (last.op = "decrypt" /\ (last.key = Empty \/ last.env = Empty)) =>
       /\ ExcOf(last.out) =
            Exc("ValueError",
                IF last.env = Empty THEN "Encrypted password cannot be empty"
                ELSE "Master key cannot be empty", <<>>)
       /\ last.out.steps = <<>> /\ last.out.causes = <<>>

C14_Witness ==
  /\ last.op = "decrypt"
  /\ last.env \in Held
  /\ last.key = Empty
  /\ last.out.msg = "Master key cannot be empty"

HexChars == (48..57) \cup (97..102)

\* C16: every generate_encryption_key call returns 64 hexadecimal characters, the
\* hex form of 32 bytes of the random source, and a string that differs from the hex
\* form of everything the random source returned before, earlier keys included.
C16_KeyFormat ==
  [][last'.op = "generate" =>
       /\ last'.out.kind = "ok"
       /\ Len(last'.out.value) = 64
       /\ \A i \in 1..Len(last'.out.value) : last'.out.value[i] \in HexChars
       /\ \E raw \in rngOut' \ rngOut : Len(raw) = 32 /\ TokenHex(raw) = last'.out.value
       /\ \A b \in rngOut : TokenHex(b) # last'.out.value]_vars

C16_Witness ==
  /\ last.op = "generate"
  /\ vault = {}
  /\ Cardinality({b \in rngOut : Len(b) = 32}) = 2
  /\ Len(last.out.value) = 64

\* C17: change_password_encryption gives its caller the new envelope or an error and
\* nothing else: the value returned is an envelope and not the plaintext, a failure
\* returns nothing, and neither the raised error, nor the errors chained to it, nor
\* the log records carry any decrypted data.
C17_Confidential ==
  last.op = "rotate" =>
    /\ last.out.kind = "ok" =>
         \A e \in vault :
           e.env = last.env =>
             /\ last.out.value # e.pt
             /\ B64Decode(UTF8Encode(last.out.value))[1]
             /\ Len(B64Decode(UTF8Encode(last.out.value))[2]) = 64 + PlainLen(e)
    /\ last.out.kind # "ok" => last.out.value = <<>>
    /\ last.out.data = <<>>
    /\ \A i \in 1..Len(last.out.causes) : last.out.causes[i].data = <<>>
    /\ \A i \in 1..Len(last.out.logs) : last.out.logs[i].data = <<>>

\* the last call decrypted an envelope that another program sealed, key derivation
\* having succeeded
DecryptedForeign ==
  last.op = "decrypt" /\ last.tamper.segment = "foreign" /\ HasStep(last.out, "cipher")

\* C18: the error and the log records of a call do not depend on the plaintext: a
\* call on an envelope that differs only in the sealed bytes raises the same error
\* and writes the same log records, and no log record or chained error of any call
\* carries decrypted data.
C18_NoPlaintextInLogs ==
  /\ DecryptedForeign =>
       \A B \in ForeignPlaintexts :
         Len(B) = Len(last.tamper.of) =>
           \E twin \in {decrypt_password(ForeignEnvelope(B, last.key), last.key, TRUE)} :
             /\ ExcOf(twin) = ExcOf(last.out)
             /\ twin.logs = last.out.logs
  /\ last.op \in {"encrypt", "decrypt", "derive", "rotate"} =>
       /\ \A i \in 1..Len(last.out.causes) : last.out.causes[i].data = <<>>
       /\ \A i \in 1..Len(last.out.logs) : last.out.logs[i].data = <<>>

\* the outcome the call of frame f has when no other call runs, given its own draws
Alone(f) ==
  IF f.op = "encrypt" THEN encrypt_password(f.pt, f.key, f.salt, f.iv, TRUE)
  ELSE IF f.op = "decrypt" THEN decrypt_password(f.env, f.key, TRUE)
  ELSE IF f.op = "verify" THEN verify_encryption_integrity(f.env, f.key, TRUE)
  ELSE change_password_encryption(f.env, f.key, f.newKey, f.salt, f.iv, TRUE, TRUE)

\* C15: in every interleaving of concurrent encrypt_password, decrypt_password,
\* change_password_encryption and verify_encryption_integrity calls, the outcome of
\* each finished call is the outcome the same call has alone, a function of its own
\* arguments and its own draws.
C15_Stateless ==
  \A t \in Threads : frames[t].pc = "done" => frames[t].out = Alone(frames[t])

C15_Witness ==
  /\ frames["t1"].pc = "done" /\ frames["t1"].op = "rotate"
  /\ frames["t1"].out.kind = "ok"
  /\ frames["t2"].pc = "done" /\ frames["t2"].op = "encrypt"
  /\ frames["t2"].out.kind = "ok"
  /\ frames["t2"].salt = TokenBytes(SALT_SIZE, 1)
  /\ frames["t1"].iv = TokenBytes(IV_SIZE, 1)

\* the stored record p decrypts under the key of the logged-in user
Decrypts(p) ==
  decrypt_password(p.encrypted_password, users[current_user].encryption_key, TRUE).kind = "ok"

\* the records of the logged-in user whose decryption fails
FailingOwn ==
  {i \in 1..Len(passwords) : passwords[i].user_id = current_user /\ ~Decrypts(passwords[i])}

\* a malformed and an unauthentic envelope of the logged-in user
DamagedEnvelopes ==
  {Truncated(StoredFor(current_user, <<115, 51>>)), Flipped(StoredFor(current_user, <<115, 51>>))}

\* C19: what the dashboard and the edit form answer for a record whose decryption
\* fails does not tell a malformed envelope from one that fails authentication: with
\* the record's envelope replaced by a damaged one of either kind, the response is
\* the same.
C19_NoOracle ==
  /\ (response.route = "dashboard" /\ current_user # 0) =>
       \A i \in FailingOwn, E \in DamagedEnvelopes :
         dashboard([passwords EXCEPT ![i].encrypted_password = E], users[current_user])[1]
           = response
  /\ (response.route = "edit_password" /\ current_user # 0 /\ response.id \in FailingOwn) =>
       /\ response.flash = <<"Error loading password data.">>
       /\ response.redirect = "dashboard"
       /\ \A E \in DamagedEnvelopes :
            edit_password_get([passwords EXCEPT ![response.id].encrypted_password = E],
                              users[current_user], response.id)[1] = response

C19_Witness ==
  /\ response.route = "edit_password" /\ current_user = 1 /\ response.id \in FailingOwn
  /\ applog[1].err = "Password decryption failed"
  /\ \E E \in DamagedEnvelopes :
       decrypt_password(E, users[current_user].encryption_key, TRUE).msg
         = "Invalid encrypted password data"
  /\ response.status = 302

\* C20: the dashboard listing of a logged-in user holds exactly the user's records
\* that decrypt under the user's key, in stored order, each with its plaintext; every
\* record that fails is left out and logged, and the request is answered all the same.
C20_SkipCorrupted ==
  (response.route = "dashboard" /\ current_user # 0) =>
    LET Good(p) == p.user_id = current_user /\ Decrypts(p)
        Bad(p) == p.user_id = current_user /\ ~Decrypts(p)
        good == SelectSeq(passwords, Good)
        bad == SelectSeq(passwords, Bad)
    IN  /\ response.status = 200
        /\ response.template = "dashboard.html"
        /\ Len(response.listing) = Len(good)
        /\ \A i \in 1..Len(good) :
             /\ response.listing[i].id = good[i].id
             /\ response.listing[i].service = good[i].service
             /\ response.listing[i].password =
                  decrypt_password(good[i].encrypted_password,
                                   users[current_user].encryption_key, TRUE).value
        /\ Len(applog) = Len(bad)
        /\ \A i \in 1..Len(bad) : applog[i].id = bad[i].id /\ applog[i].level = "error"

C20_Witness ==
  /\ response.route = "dashboard" /\ current_user = 1
  /\ Len(passwords) = 2
  /\ FailingOwn = {1}
  /\ Len(response.listing) = 1
  /\ response.listing[1].id = 2
  /\ response.listing[1].password = <<112, 233>>
  /\ Len(applog) = 1

\* C22: password hashing.  For every password p of at least 8 characters
\* hash_password(p) returns a hash and verify_password(p, hash) is True, while
\* verify_password(q, hash) is False for every q # p; two hashes of the same password
\* differ; verify_password never raises and returns False for an empty password, an
\* empty hash and an invalid hash.
C22_HashVerify ==
  /\ last.op = "hash" /\ Len(last.pt) >= 8 => last.out.kind = "ok"
  /\ \A e \in vault :
       last.op = "verify_password" /\ last.env = e.env
         => last.out.value = (last.pt = e.pt)
  /\ \A e1, e2 \in vault : e1.pt = e2.pt /\ e1.salt # e2.salt => e1.env # e2.env
  /\ last.op = "verify_password" => last.out.kind = "ok"
  /\ last.op = "verify_password" /\ (last.pt = Empty \/ last.env \in BadHashes \cup {Empty})
       => last.out.value = FALSE

\* C23: secure_compare(a, b) returns True exactly when a and b are equal, that is
\* when they have the same length and the same character at every position, and
\* False otherwise.
C23_Equality ==
  last.op = "compare"
    => /\ last.out.kind = "ok"
       /\ last.out.value = (/\ Len(last.pt) = Len(last.env)
                            /\ \A i \in 1..Len(last.pt) : last.pt[i] = last.env[i])

\* "aéc" against "abc": the same length, the last characters equal, not equal
C23_Witness ==
  /\ last.op = "compare"
  /\ last.pt = <<97, 233, 99>>
  /\ last.env = <<97, 98, 99>>
  /\ last.out.value = FALSE

\* C24: secure_compare always compares the full length regardless of differences:
\* the number of comparison steps it makes for a and b is the number it makes for a
\* and a, whether or where b differs from a.
C24_FullLength ==
  last.op = "compare"
    => Len(last.out.steps) = Len(secure_compare(last.pt, last.pt).steps)

\* what the code does: for inputs of the same length one comparison step for every
\* character, whether or where the inputs differ; for inputs of different lengths
\* none (lines 270-271).  The number of steps depends on the two lengths alone.
StepsByLength ==
  last.op = "compare"
    => /\ Len(last.out.steps) = IF Len(last.pt) = Len(last.env) THEN Len(last.pt) ELSE 0
       /\ \A a \in CompareStrings, b \in CompareStrings :
            Len(a) = Len(last.pt) /\ Len(b) = Len(last.env)
              => Len(secure_compare(a, b).steps) = Len(last.out.steps)

\* C25: after one byte of the salt segment (offsets 0..31) or of the nonce segment
\* (offsets 32..47) of an envelope made by encrypt_password(P, K) has been changed,
\* decrypt_password under K fails: it returns neither P nor any other plaintext.
C25_HeaderTamperDetected ==
  (last.op = "decrypt" /\ last.tamper.segment \in {"salt", "iv"})
    => /\ last.tamper.pos \in 1..(SALT_SIZE + IV_SIZE)
       /\ last.out.kind = "RuntimeError"
       /\ last.out.causes = <<Exc("InvalidTag", "", <<>>)>>
       /\ last.out.value = <<>>

\* the last byte of the nonce of an envelope was changed and decryption failed
C25_Witness ==
  /\ last.op = "decrypt"
  /\ last.tamper.segment = "iv"
  /\ last.tamper.pos = SALT_SIZE + IV_SIZE
  /\ \E e \in vault : e.env = last.tamper.of /\ e.key = last.key
  /\ last.out.kind = "RuntimeError"


\* the routes behind @login_required, by the name a request to them has in last
ProtectedOps ==
  {"logout", "dashboard", "add_password", "edit_password_get", "edit_password",
   "delete_password", "settings"}

RouteOf(op) == IF op = "edit_password_get" THEN "edit_password" ELSE op

\* C21: a request to /logout, /dashboard, /add_password, /edit_password,
\* /delete_password or /settings that arrives without an authenticated user is
\* answered with the redirect to the login page; nothing is listed, decrypted or
\* logged, no random value is drawn, and the tables and the session are unchanged
C21_ProtectedRoutes ==
  [][(CurrentUser = <<>> /\ last'.op \in ProtectedOps)
       => /\ response' = [LoginRequired EXCEPT !.route = RouteOf(last'.op), !.id = last'.id]
          /\ applog' = <<>>
          /\ users' = users
          /\ passwords' = passwords
          /\ current_user' = current_user
          /\ rngOut' = rngOut]_vars

\* without a session, a request to delete a stored record was sent to the login page
C21_Witness ==
  /\ last.op = "delete_password"
  /\ current_user = 0
  /\ response.status = 302 /\ response.redirect = "login"
  /\ \E i \in 1..Len(passwords) : passwords[i].id = last.id


\* the request of the step stored a password for the row with this id
Submitted(id) ==
  /\ response'.status = 302 /\ response'.redirect = "dashboard"
  /\ \/ last'.op = "edit_password" /\ last'.id = id
     \/ last'.op = "add_password" /\ \A i \in 1..Len(passwords) : passwords[i].id # id

\* what the stored record decrypts to under the key of the user it belongs to
Readable(row, rows) ==
  LET Owner(u) == u.id = row.user_id
  IN  decrypt_password(row.encrypted_password, SelectSeq(rows, Owner)[1].encryption_key, TRUE)

\* C26: no request changes the encryption_key of a stored user, and after every
\* request each stored Password row decrypts under the encryption_key of its user:
\* to the password of the form when the request stored one for the row
\* (add_password or edit_password that succeeded), and to what it decrypted to
\* before the request otherwise
C26_StaysDecryptable ==
  [][/\ \A i \in 1..Len(users), j \in 1..Len(users') :
          users[i].id = users'[j].id => users'[j].encryption_key = users[i].encryption_key
     /\ \A j \in 1..Len(passwords') :
          \E r \in {Readable(passwords'[j], users')} :
            /\ r.kind = "ok"
            /\ IF Submitted(passwords'[j].id) THEN r.value = last'.form.password
               ELSE \E i \in 1..Len(passwords) :
                      /\ passwords[i].id = passwords'[j].id
                      /\ Readable(passwords[i], users).value = r.value]_vars

\* alice changed the password stored for "mail" from "s3" to "pé" and the
\* dashboard lists it
C26_Witness ==
  /\ last.op = "dashboard"
  /\ \E i \in 1..Len(response.listing) :
       response.listing[i].id = 1 /\ response.listing[i].password = <<112, 233>>


\* the stored records of the user of the session, and those of the other users
OwnRows ==
  {passwords[i] : i \in {j \in 1..Len(passwords) : passwords[j].user_id = current_user}}
ForeignRows == {passwords[i] : i \in 1..Len(passwords)} \ OwnRows

\* C27: when a logged-in user requests the dashboard, edit_password or
\* delete_password, the records of the other users stay in the table as they are;
\* what the dashboard lists and what the edit form shows are records of that user,
\* decrypted with that user's encryption_key; and a request with the id of another
\* user's record gets 404 and changes neither table, draws no random value and
\* keeps the session
C27_OwnerIsolation ==
  [][(CurrentUser # <<>>
      /\ last'.op \in {"dashboard", "edit_password_get", "edit_password", "delete_password"})
       => /\ \A r \in ForeignRows : \E j \in 1..Len(passwords') : passwords'[j] = r
          /\ \A i \in 1..Len(response'.listing) :
               \E r \in OwnRows :
                 /\ r.id = response'.listing[i].id
                 /\ decrypt_password(r.encrypted_password, CurrentUser[1].encryption_key,
                                     TRUE).value = response'.listing[i].password
          /\ response'.form # <<>>
               => \E r \in OwnRows :
                    /\ r.id = last'.id
                    /\ decrypt_password(r.encrypted_password, CurrentUser[1].encryption_key,
                                        TRUE).value = response'.form[2]
          /\ (last'.op # "dashboard" /\ \E r \in ForeignRows : r.id = last'.id)
               => /\ response'.status = 404
                  /\ response'.form = <<>>
                  /\ users' = users
                  /\ passwords' = passwords
                  /\ current_user' = current_user
                  /\ rngOut' = rngOut]_vars

\* bob, logged in, posted a new password for alice's record and got 404
C27_Witness ==
  /\ last.op = "edit_password"
  /\ last.form.password = <<112, 233>>
  /\ current_user = 2
  /\ \E i \in 1..Len(passwords) : passwords[i].id = last.id /\ passwords[i].user_id = 1
  /\ response.status = 404


\* the request of the step is delete_account by a logged-in user
DeleteAccountRequested ==
  /\ CurrentUser # <<>>
  /\ last'.op = "settings"
  /\ last'.form.action = "delete_account"

\* the confirmation password of the request is the password of the logged-in user
ConfirmedByPassword ==
  verify_password(last'.form.delete_confirm_password, CurrentUser[1].password_hash, TRUE).value

\* the user of the session and the user's records are gone, the session is logged out
AccountGone ==
  /\ \A j \in 1..Len(users') : users'[j].id # current_user
  /\ \A j \in 1..Len(passwords') : passwords'[j].user_id # current_user
  /\ current_user' = 0

\* no user and no record was deleted, the session is as before
AccountKept ==
  /\ users' = users
  /\ passwords' = passwords
  /\ current_user' = current_user

\* every record belongs to a stored user
NoOrphans ==
  \A j \in 1..Len(passwords') : \E i \in 1..Len(users') : users'[i].id = passwords'[j].user_id

\* C29 as stated: delete_account with the correct password removes the user and the
\* user's records and logs the session out; with a wrong password nothing is
\* deleted and the session stays; no record ever refers to a missing user
C29_AccountDeletion ==
  [][/\ NoOrphans
     /\ DeleteAccountRequested
          => IF ConfirmedByPassword THEN AccountGone ELSE AccountKept]_vars

\* C29: delete_account with the correct password removes the user and the user's
\* records and logs the session out when the deletion commits; when the deletion
\* raises, or the password is wrong, nothing is deleted and the session stays; no
\* record ever refers to a missing user
C29_DeletionCommitted ==
  [][/\ NoOrphans
     /\ DeleteAccountRequested
          => IF ConfirmedByPassword /\ last'.commitOk THEN AccountGone ELSE AccountKept]_vars

\* alice confirmed with her password: her account and her record are gone, bob's
\* account is left and nobody is logged in
C29_Witness ==
  /\ last.op = "settings"
  /\ last.form.action = "delete_account"
  /\ last.form.delete_confirm_password = PwA
  /\ last.commitOk
  /\ response.redirect = "register"
  /\ current_user = 0
  /\ Len(users) = 1 /\ users[1].username = NameBob
  /\ passwords = <<>>


\* the request of the step is an add_password or edit_password of a logged-in user
\* that reaches the try block (the form validates, the record to edit is the
\* user's) and fails in it: the key derivation of encrypt_password or the commit
FailedInTry ==
  /\ CurrentUser # <<>>
  /\ last'.op \in {"add_password", "edit_password"}
  /\ PasswordFormValid(last'.form)
  /\ last'.op = "edit_password" => OwnPassword(passwords, CurrentUser[1], last'.id) # <<>>
  /\ ~last'.kdfOk \/ ~last'.commitOk

\* C30: when encrypt_password or the commit fails in add_password or
\* edit_password, both tables are exactly as before the request (no row is
\* created, the edited row keeps service, username, url, notes, updated_at and
\* encrypted_password), the session is kept, and the form is shown again with the
\* failure message
C30_UnchangedOnFailure ==
  [][FailedInTry
       => /\ passwords' = passwords
          /\ users' = users
          /\ current_user' = current_user
          /\ response'.status = 200
          /\ response'.flash = IF last'.op = "add_password"
                               THEN <<"Failed to add password. Please try again.">>
                               ELSE <<"Failed to update password. Please try again.">>
          /\ Len(applog') = 1 /\ applog'[1].level = "error"]_vars

\* alice posted "bank" with a new password for her record "mail" and the commit
\* failed: the record is still "mail"
C30_Witness ==
  /\ last.op = "edit_password"
  /\ last.kdfOk /\ ~last.commitOk
  /\ last.form.service = <<98, 97, 110, 107>>
  /\ response.flash = <<"Failed to update password. Please try again.">>
  /\ \E i \in 1..Len(passwords) :
       /\ passwords[i].id = last.id
       /\ passwords[i].service = <<109, 97, 105, 108>>
       /\ passwords[i].updated_at = 1


\* C28: whatever the order in which two workers validate and commit register and
\* update_profile requests, no two stored users have the same username and no two
\* the same email; and a request that finds its username or email held by a
\* (different) stored user when it is answered is answered without success and
\* leaves the users table as it was
C28_AccountUniqueness ==
  [][/\ \A i, j \in 1..Len(users') :
          i # j => /\ users'[i].username # users'[j].username
                   /\ users'[i].email # users'[j].email
     /\ (/\ last'.op = "register"
         /\ \E i \in 1..Len(users) : \/ users[i].username = last'.form.username
                                     \/ users[i].email = last'.form.email)
          => users' = users /\ response'.status = 200
     /\ (/\ last'.op = "update_profile"
         /\ \E i \in 1..Len(users) : /\ users[i].username = Strip(last'.form.username)
                                     /\ users[i].id # last'.id)
          => /\ users' = users
             /\ response'.flash # <<"Profile updated successfully.">>]_vars

\* a registration passed its validation and look-ups, another worker stored a user
\* with the same username meanwhile, and the commit was refused
C28_Witness ==
  /\ last.op = "register"
  /\ last.commitOk
  /\ response.flash = <<"Registration failed. Please try again.">>
  /\ \E i \in 1..Len(users) : users[i].username = last.form.username

====
